---- MODULE Spec2Model ----
(***************************************************************************)
(* incresql: the catalog (databases, tables, table ids) over the versioned *)
(* key-value storage (frequency-tagged rows, logical timestamps,           *)
(* point-in-time scans).                                                   *)
(***************************************************************************)
EXTENDS Integers, Sequences, FiniteSets, TLC

VARIABLES
    store,      \* the key-value store: table id -> set of stored versions
    now,        \* the wall clock in ms, read by LogicalTimestamp::now
    hashOf,     \* DefaultHasher of each table name, truncated to the id width
    result,     \* the last catalog call and what it returned
    reader,     \* a Catalog::table call between its two point lookups
    writes,     \* the number of write_tuple calls made by inserts
    insert,     \* a TableInsert executor between its first row and its commit
    connections_state,  \* Runtime.connections_state: the counter and the map
    lock,       \* the holder of the connections_state RwLock
    conns,      \* the Connection objects ever created, by allocation order
    threads,    \* the threads calling into the runtime: position and locals
    exec,       \* a statement being executed for a connection
    catalog_lock,   \* Planner.catalog RwLock: its readers and its writer
    planner,    \* the threads inside Planner::validate and their position
    codec,      \* a datum, its sortable encoding and what was decoded from it
    query,      \* a statement's plan on its way from the validator to its rows
    project     \* a Project executor, its source and what its consumer saw

vars ==
    <<store, now, hashOf, result, reader, writes, insert, connections_state,
      lock, conns, threads, exec, catalog_lock, planner, codec, query, project>>

\* The state of the runtime, of the planner and of the codec.
runtimeVars == <<connections_state, lock, conns, threads, exec>>

plannerVars == <<catalog_lock, planner>>

\* The state of the catalog and of the storage.
catalogVars == <<store, now, hashOf, result, reader, writes, insert>>

\* The state of a statement in the planner's later passes and in its executor.
pipelineVars == <<query, project>>

\* The state the catalog and the storage do not touch.
otherVars == <<insert, runtimeVars, plannerVars, codec, pipelineVars>>

----------------------------------------------------------------------------
(* Bounds *)

\* The clock runs over 0..MaxTime; bootstrap happens at 0.
MaxTime == 1

\* Table ids are kept IdBits wide (u32 in the source), so that the probe of
\* generate_table_id can reach the top of the id range.
IdBits == 4

IdModulus == 2 ^ IdBits

\* LogicalTimestamp::MAX: larger than every timestamp the clock produces.
LogicalTimestampMAX == MaxTime + 100

UserDatabases == {"abc", "default"}

UserTables == {"test"}

\* The hashes a table name may have: one that lands on the reserved ids and
\* one at the top of the id range.
HashValues == {1, IdModulus - 1}


----------------------------------------------------------------------------
(* Program constants *)

PREFIX_METADATA_TABLE_ID == 0

DATABASES_TABLE_ID == 2

TABLES_TABLE_ID == 4

----------------------------------------------------------------------------
(* Data: datum order, data types, JSON *)

\* The texts of the model in bytewise order.
TextOrder ==
    <<"abc", "databases", "default", "incresql", "prefix_metadata",
      "tables", "test">>

TextRank(t) == CHOOSE i \in 1..Len(TextOrder) : TextOrder[i] = t

\* Ord for Datum, restricted to two datums of one column (same type).
DatumLess(type, a, b) ==
    IF type \in {"Text", "Json"} THEN TextRank(a) < TextRank(b) ELSE a < b

\* Display of a DataType with the alternate flag, as stored in the columns json.
DataTypeDisplay(type) ==
    CASE type = "Integer" -> "INTEGER"
      [] type = "BigInt" -> "BIGINT"
      [] type = "Boolean" -> "BOOLEAN"
      [] type = "Text" -> "TEXT"
      [] type = "Json" -> "JSON"

DataTypes == {"Integer", "BigInt", "Boolean", "Text", "Json"}

\* DataType::try_from(&str): the type whose name is s, or "Err".
DataTypeTryFrom(s) ==
    IF \E t \in DataTypes : DataTypeDisplay(t) = s
    THEN CHOOSE t \in DataTypes : DataTypeDisplay(t) = s
    ELSE "Err"

\* SortOrder::is_desc
is_desc(order) == order = "Desc"

----------------------------------------------------------------------------
(* Storage *)

\* Storage::table: a handle; no I/O.
StorageTable(id, columns, pk) == [id |-> id, columns |-> columns, pk |-> pk]

Rows(s, id) == IF id \in DOMAIN s THEN s[id] ELSE {}

RECURSIVE TupleLess(_, _, _, _)
\* Lexicographic order of two primary keys (or key prefixes) of a table; a
\* proper prefix sorts first.
TupleLess(table, i, p, q) ==
    IF i > Len(p) \/ i > Len(q) THEN Len(p) < Len(q)
    ELSE IF p[i] = q[i] THEN TupleLess(table, i + 1, p, q)
    ELSE DatumLess(table.columns[i][2], p[i], q[i])

\* Key layout: sortable pk, then the inverted timestamp: within one pk the
\* newest version comes first.
KeyLess(table, v, w) ==
    \/ TupleLess(table, 1, v.pk, w.pk)
    \/ v.pk = w.pk /\ v.ts > w.ts

RECURSIVE SortedKeys(_, _)
\* The versions of a table in key order, as the store's iterator yields them.
SortedKeys(table, S) ==
    IF S = {} THEN <<>>
    ELSE LET first == CHOOSE v \in S : \A w \in S \ {v} : KeyLess(table, v, w)
         IN  <<first>> \o SortedKeys(table, S \ {first})

Prefix(pk, n) == IF n >= Len(pk) THEN pk ELSE SubSeq(pk, 1, n)

\* lower/upper are key prefixes; <<>> stands for None.
InRange(table, pk, lower, upper) ==
    /\ ~TupleLess(table, 1, Prefix(pk, Len(lower)), lower)
    /\ ~TupleLess(table, 1, upper, Prefix(pk, Len(upper)))

RECURSIVE ScanKeys_FallsThrough(_, _, _, _)
\* A scan that, on a newest version of frequency 0, goes on to the older
\* versions of the same pk.
ScanKeys_FallsThrough(keys, at_ts, taken, acc) ==
    IF keys = <<>> THEN acc
    ELSE LET v == Head(keys) IN
         IF taken = <<v.pk>> \/ v.ts > at_ts \/ v.freq = 0
         THEN ScanKeys_FallsThrough(Tail(keys), at_ts, taken, acc)
         ELSE ScanKeys_FallsThrough(Tail(keys), at_ts, <<v.pk>>,
                       Append(acc, [row |-> v.pk \o v.val, freq |-> v.freq]))

RECURSIVE ScanKeys(_, _, _, _)
\* The visibility algorithm: for each pk the first (newest) version with
\* ts <= at_ts is taken, and skipped when its stored frequency is 0.
\* taken holds the pk whose version has been decided already.
ScanKeys(keys, at_ts, taken, acc) ==
    IF keys = <<>> THEN acc
    ELSE LET v == Head(keys) IN
         IF taken = <<v.pk>> \/ v.ts > at_ts
         THEN ScanKeys(Tail(keys), at_ts, taken, acc)
         ELSE ScanKeys(Tail(keys), at_ts, <<v.pk>>,
                       IF v.freq = 0 THEN acc
                       ELSE Append(acc, [row |-> v.pk \o v.val, freq |-> v.freq]))

\* Table::range_scan: the sequence of (row, freq) the iterator yields.
range_scan(s, table, lower, upper, at_ts) ==
    ScanKeys(SortedKeys(table,
                 {v \in Rows(s, table.id) : InRange(table, v.pk, lower, upper)}),
             at_ts, <<>>, <<>>)

\* Table::full_scan
full_scan(s, table, at_ts) == range_scan(s, table, <<>>, <<>>, at_ts)

\* Table::system_point_lookup: the value columns of the row at the latest
\* timestamp, as <<value>>, or <<>> for None.
system_point_lookup(s, table, pk) ==
    LET found == range_scan(s, table, pk, pk, LogicalTimestampMAX)
    IN  IF found = <<>> THEN <<>>
        ELSE << SubSeq(found[1].row, Len(pk) + 1, Len(found[1].row)) >>

\* The frequency visible for pk at at_ts (0 when nothing is visible), read
\* the way a scan reads it.
FreqAt(s, table, pk, at_ts) ==
    LET found == range_scan(s, table, pk, pk, at_ts)
    IN  IF found = <<>> THEN 0 ELSE found[1].freq

\* A write_tuple that stores the frequency it is given: a later write under
\* the same key overwrites the earlier one.
write_tuple_Overwrite(s, table, tuple, ts, freq) ==
    LET pk == SubSeq(tuple, 1, Len(table.pk))
        val == SubSeq(tuple, Len(table.pk) + 1, Len(tuple))
        version == [pk |-> pk, ts |-> ts, val |-> val, freq |-> freq]
        kept == {v \in Rows(s, table.id) : ~(v.pk = pk /\ v.ts = ts)}
    IN  [id \in DOMAIN s \cup {table.id} |->
            IF id = table.id THEN kept \cup {version} ELSE s[id]]

\* WriteBatch::write_tuple: one versioned row under key (pk, ts). The stored
\* frequency is the net frequency of the pk at ts; a version already stored
\* under the same key is replaced.
write_tuple(s, table, tuple, ts, freq) ==
    LET pk == SubSeq(tuple, 1, Len(table.pk))
        val == SubSeq(tuple, Len(table.pk) + 1, Len(tuple))
        version == [pk |-> pk, ts |-> ts, val |-> val,
                    freq |-> FreqAt(s, table, pk, ts) + freq]
        kept == {v \in Rows(s, table.id) : ~(v.pk = pk /\ v.ts = ts)}
    IN  [id \in DOMAIN s \cup {table.id} |->
            IF id = table.id THEN kept \cup {version} ELSE s[id]]

RECURSIVE ApplyBatch(_, _)
ApplyBatch(s, batch) ==
    IF batch = <<>> THEN s
    ELSE LET w == Head(batch)
         IN  ApplyBatch(write_tuple(s, w.table, w.tuple, w.ts, w.freq), Tail(batch))

\* Table::atomic_write: every write of the batch is committed in one step.
atomic_write(s, batch) == ApplyBatch(s, batch)

Write(table, tuple, ts, freq) ==
    [table |-> table, tuple |-> tuple, ts |-> ts, freq |-> freq]

----------------------------------------------------------------------------
(* Catalog *)

prefix_metadata_table ==
    StorageTable(PREFIX_METADATA_TABLE_ID,
                 << <<"table_id", "BigInt">>, <<"column_len", "Integer">>,
                    <<"pks_sorts", "Json">> >>,
                 <<"Asc">>)

databases_table ==
    StorageTable(DATABASES_TABLE_ID, << <<"name", "Text">> >>, <<"Asc">>)

tables_table ==
    StorageTable(TABLES_TABLE_ID,
                 << <<"database_name", "Text">>, <<"name", "Text">>,
                    <<"table_id", "BigInt">>, <<"columns", "Json">>,
                    <<"system", "Boolean">> >>,
                 <<"Asc", "Asc">>)

\* The columns json written by create_table_impl: [[alias, type], ...].
ColumnsJson(columns) ==
    [i \in 1..Len(columns) |-> <<columns[i][1], DataTypeDisplay(columns[i][2])>>]

\* The pks_sorts json written by create_table_impl: [is_desc, ...].
PksJson(pks) == [i \in 1..Len(pks) |-> is_desc(pks[i])]

\* Catalog::db_exists
db_exists(s, database_name) ==
    range_scan(s, databases_table, <<database_name>>, <<database_name>>,
               LogicalTimestampMAX) # <<>>

\* Catalog::table_exists
table_exists(s, database_name, table_name) ==
    range_scan(s, tables_table, <<database_name, table_name>>,
               <<database_name, table_name>>, LogicalTimestampMAX) # <<>>

\* check_db_empty finding every database empty.
check_db_empty_AlwaysOk(s, database_name) == TRUE

\* Catalog::check_db_empty: TRUE for Ok, FALSE for DatabaseNotEmpty.
check_db_empty(s, database_name) ==
    range_scan(s, tables_table, <<database_name>>, <<database_name>>,
               LogicalTimestampMAX) = <<>>

\* Catalog::create_database_impl: no checks.
create_database_impl(s, database_name, ts) ==
    atomic_write(s, << Write(databases_table, <<database_name>>, ts, 1) >>)

\* create_database without the check_db_not_exists call.
create_database_NoCheck(s, database_name, ts) ==
    [res |-> "Ok", store |-> create_database_impl(s, database_name, ts)]

\* Catalog::create_database: the outcome and the store after the call.
create_database(s, database_name, ts) ==
    IF db_exists(s, database_name)
    THEN [res |-> "DatabaseAlreadyExists", store |-> s]
    ELSE [res |-> "Ok", store |-> create_database_impl(s, database_name, ts)]

\* drop_database returning Ok without writing the retraction.
drop_database_NoWrite(s, database_name, ts) ==
    IF ~db_exists(s, database_name)
    THEN [res |-> "DatabaseNotFound", store |-> s]
    ELSE IF ~check_db_empty(s, database_name)
    THEN [res |-> "DatabaseNotEmpty", store |-> s]
    ELSE [res |-> "Ok", store |-> s]

\* drop_database writing the retraction with frequency +1.
drop_database_WritesPlusOne(s, database_name, ts) ==
    IF ~db_exists(s, database_name)
    THEN [res |-> "DatabaseNotFound", store |-> s]
    ELSE IF ~check_db_empty(s, database_name)
    THEN [res |-> "DatabaseNotEmpty", store |-> s]
    ELSE [res |-> "Ok",
          store |-> atomic_write(s,
                      << Write(databases_table, <<database_name>>, ts, 1) >>)]

\* drop_database calling check_db_empty before check_db_exists.
drop_database_EmptyFirst(s, database_name, ts) ==
    IF ~check_db_empty(s, database_name)
    THEN [res |-> "DatabaseNotEmpty", store |-> s]
    ELSE IF ~db_exists(s, database_name)
    THEN [res |-> "DatabaseNotFound", store |-> s]
    ELSE [res |-> "Ok",
          store |-> atomic_write(s,
                      << Write(databases_table, <<database_name>>, ts, -1) >>)]

\* Catalog::drop_database
drop_database(s, database_name, ts) ==
    IF ~db_exists(s, database_name)
    THEN [res |-> "DatabaseNotFound", store |-> s]
    ELSE IF ~check_db_empty(s, database_name)
    THEN [res |-> "DatabaseNotEmpty", store |-> s]
    ELSE [res |-> "Ok",
          store |-> atomic_write(s,
                      << Write(databases_table, <<database_name>>, ts, -1) >>)]

IdInUse(s, id) ==
    range_scan(s, prefix_metadata_table, <<id>>, <<id>>, LogicalTimestampMAX)
        # <<>>

RECURSIVE ProbeTableId(_, _, _, _)
\* The loop of generate_table_id. id += 2 past the top of the id range
\* panics in a build with overflow checks and wraps in one without.
\* fuel counts the ids not yet probed: the range holds IdModulus \div 2 even
\* ids, and a probe that has tried them all is back where it started.
ProbeTableId(s, id, overflow_checks, fuel) ==
    IF ~IdInUse(s, id) THEN [res |-> "Ok", id |-> id]
    ELSE IF fuel = 0 THEN [res |-> "Loop", id |-> id]
    ELSE IF id + 2 >= IdModulus
    THEN IF overflow_checks THEN [res |-> "Panic", id |-> id]
         ELSE ProbeTableId(s, (id + 2) % IdModulus, overflow_checks, fuel - 1)
    ELSE ProbeTableId(s, id + 2, overflow_checks, fuel - 1)

\* generate_table_id returning the even hash without probing prefix_metadata.
generate_table_id_NoProbe(s, hash, overflow_checks) ==
    [res |-> "Ok", id |-> IF hash % 2 = 1 THEN hash - 1 ELSE hash]

\* Catalog::generate_table_id: the hash as u32, made even, then the probe.
generate_table_id(s, hash, overflow_checks) ==
    LET id == IF hash % 2 = 1 THEN hash - 1 ELSE hash
    IN  ProbeTableId(s, id, overflow_checks, IdModulus \div 2)

\* Catalog::create_table_impl: both rows in one atomic batch.
create_table_impl(s, database_name, table_name, table_id, columns, pks, system, ts) ==
    atomic_write(s,
        << Write(tables_table,
                 <<database_name, table_name, table_id, ColumnsJson(columns), system>>,
                 ts, 1),
           Write(prefix_metadata_table,
                 <<table_id, Len(columns), PksJson(pks)>>, ts, 1) >>)

\* create_table whose batch holds the tables row only.
create_table_NoPrefixRow(s, database_name, table_name, columns, hash, overflow_checks, ts) ==
    IF ~db_exists(s, database_name)
    THEN [res |-> "DatabaseNotFound", store |-> s]
    ELSE IF table_exists(s, database_name, table_name)
    THEN [res |-> "TableAlreadyExists", store |-> s]
    ELSE LET id == generate_table_id(s, hash, overflow_checks)
         IN  IF id.res # "Ok" THEN [res |-> id.res, store |-> s]
             ELSE [res |-> "Ok",
                   store |-> atomic_write(s,
                       << Write(tables_table,
                                <<database_name, table_name, id.id,
                                  ColumnsJson(columns), FALSE>>, ts, 1) >>)]

\* create_table calling check_table_not_exists before check_db_exists.
create_table_TableCheckFirst(s, database_name, table_name, columns, hash, overflow_checks, ts) ==
    IF table_exists(s, database_name, table_name)
    THEN [res |-> "TableAlreadyExists", store |-> s]
    ELSE IF ~db_exists(s, database_name)
    THEN [res |-> "DatabaseNotFound", store |-> s]
    ELSE LET id == generate_table_id(s, hash, overflow_checks)
             pk == [i \in 1..Len(columns) |-> "Asc"]
         IN  IF id.res # "Ok" THEN [res |-> id.res, store |-> s]
             ELSE [res |-> "Ok",
                   store |-> create_table_impl(s, database_name, table_name,
                                               id.id, columns, pk, FALSE, ts)]

\* create_table declaring no primary key column.
create_table_NoPrimaryKey(s, database_name, table_name, columns, hash, overflow_checks, ts) ==
    IF ~db_exists(s, database_name)
    THEN [res |-> "DatabaseNotFound", store |-> s]
    ELSE IF table_exists(s, database_name, table_name)
    THEN [res |-> "TableAlreadyExists", store |-> s]
    ELSE LET id == generate_table_id(s, hash, overflow_checks)
         IN  IF id.res # "Ok" THEN [res |-> id.res, store |-> s]
             ELSE [res |-> "Ok",
                   store |-> create_table_impl(s, database_name, table_name,
                                               id.id, columns, <<>>, FALSE, ts)]

\* Catalog::create_table
create_table(s, database_name, table_name, columns, hash, overflow_checks, ts) ==
    IF ~db_exists(s, database_name)
    THEN [res |-> "DatabaseNotFound", store |-> s]
    ELSE IF table_exists(s, database_name, table_name)
    THEN [res |-> "TableAlreadyExists", store |-> s]
    ELSE LET id == generate_table_id(s, hash, overflow_checks)
             pk == [i \in 1..Len(columns) |-> "Asc"]
         IN  IF id.res # "Ok" THEN [res |-> id.res, store |-> s]
             ELSE [res |-> "Ok",
                   store |-> create_table_impl(s, database_name, table_name,
                                               id.id, columns, pk, FALSE, ts)]

NoTable == StorageTable(0, <<>>, <<>>)

\* The first half of Catalog::table: the tables row, or TableNotFound.
TableLookup(s, database, table) ==
    system_point_lookup(s, tables_table, <<database, table>>)

\* Catalog::table reading the pks_sorts booleans the wrong way round.
TableFinish_SortSwapped(s, value) ==
    LET id == value[1]
        columns == [i \in 1..Len(value[2]) |->
                        <<value[2][i][1], DataTypeTryFrom(value[2][i][2])>>]
        prefix == system_point_lookup(s, prefix_metadata_table, <<id>>)
    IN  IF prefix = <<>> \/ \E i \in 1..Len(columns) : columns[i][2] = "Err"
        THEN [res |-> "Panic", table |-> StorageTable(0, <<>>, <<>>)]
        ELSE [res |-> "Ok",
              table |-> StorageTable(id, columns,
                          [i \in 1..Len(prefix[1][2]) |->
                              IF prefix[1][2][i] THEN "Asc" ELSE "Desc"])]

\* The second half of Catalog::table, from the value of the tables row: the
\* prefix_metadata row is unwrapped, so its absence is a panic.
TableFinish(s, value) ==
    LET id == value[1]
        columns == [i \in 1..Len(value[2]) |->
                        <<value[2][i][1], DataTypeTryFrom(value[2][i][2])>>]
        prefix == system_point_lookup(s, prefix_metadata_table, <<id>>)
    IN  IF prefix = <<>> \/ \E i \in 1..Len(columns) : columns[i][2] = "Err"
        THEN [res |-> "Panic", table |-> NoTable]
        ELSE [res |-> "Ok",
              table |-> StorageTable(id, columns,
                          [i \in 1..Len(prefix[1][2]) |->
                              IF prefix[1][2][i] THEN "Desc" ELSE "Asc"])]

\* Catalog::table
table(s, database, table_name) ==
    LET found == TableLookup(s, database, table_name)
    IN  IF found = <<>> THEN [res |-> "TableNotFound", table |-> NoTable]
        ELSE TableFinish(s, found[1])

\* Catalog::bootstrap on an empty store: the three system tables and the
\* default database.
bootstrap(ts) ==
    LET s0 == [id \in {} |-> {}]
        s1 == create_table_impl(s0, "incresql", "prefix_metadata",
                  PREFIX_METADATA_TABLE_ID, prefix_metadata_table.columns,
                  prefix_metadata_table.pk, TRUE, ts)
        s2 == create_table_impl(s1, "incresql", "databases",
                  DATABASES_TABLE_ID, databases_table.columns,
                  databases_table.pk, TRUE, ts)
        s3 == create_table_impl(s2, "incresql", "tables",
                  TABLES_TABLE_ID, tables_table.columns,
                  tables_table.pk, TRUE, ts)
    IN  create_database_impl(s3, "default", ts)

----------------------------------------------------------------------------
(* The state machine *)

Idle == [pc |-> "idle", database |-> "", table |-> "", value |-> <<>>]

\* A call, its arguments and what it returned.
Result(op, args, res) == [op |-> op, args |-> args, res |-> res]

\* The hash of a table name; the system tables' names are never hashed.
HashOfName(name) == IF name \in DOMAIN hashOf THEN hashOf[name] ELSE 1

\* The names create_database and drop_database are called with.
DatabaseArgs == UserDatabases \cup {"incresql"}

\* The (database, table, columns) create_table is called with.
TableCalls ==
    { <<"abc", "test", << <<"a", "Text">>, <<"b", "Integer">> >> >>,
      <<"default", "test", << <<"a", "Integer">> >> >>,
      <<"incresql", "databases", << <<"name", "Text">> >> >> }

\* The (database, table) pairs table is called with.
TableArgs == {<<c[1], c[2]>> : c \in TableCalls}

\* No TableInsert is running.
NoInsert ==
    [pc |-> "idle", source |-> <<>>, pos |-> 0, batch |-> <<>>, ts |-> 0,
     emitted |-> 0]

\* Runtime::new_with_storage: the counter at 0 and an empty map.
NewConnectionsState == [connection_id_counter |-> 0, connections |-> <<>>]

Threads == {"t1", "t2"}

\* A thread outside the runtime: no call in progress.
ThreadIdle == [pc |-> "idle", connection_id |-> 0, conn |-> 0]

\* No statement is running.
NoExec == [pc |-> "idle", conn |-> 0, pos |-> 0, kill_seen |-> FALSE, res |-> "None"]

NoCatalogLock == [readers |-> {}, writer |-> "none"]

Queries == {"q1", "q2"}

\* No thread is inside Planner::validate and no DDL statement is running.
PlannerIdle == [q \in Queries \cup {"ddl"} |-> "idle"]

\* Nothing was encoded yet: the datums written and the orders they were written
\* with, the buffer they were appended to, the datums decoded from it and the
\* bytes the decoder has not consumed yet.
NoCodec == [pc |-> "write", written |-> <<>>, buffer |-> <<>>, decoded |-> <<>>, rem |-> <<>>]

\* The runtime as Runtime::new_with_storage leaves it, with no connection.
RuntimeInit ==
    /\ connections_state = NewConnectionsState
    /\ lock = "none"
    /\ conns = <<>>
    /\ threads = [t \in Threads |-> ThreadIdle]
    /\ exec = NoExec

PlannerInit ==
    /\ catalog_lock = NoCatalogLock
    /\ planner = PlannerIdle

\* No statement is being planned and no Project executor was built.
PipelineInit ==
    /\ query = [pc |-> "idle"]
    /\ project = [pc |-> "idle"]

OtherInit ==
    /\ insert = NoInsert
    /\ RuntimeInit
    /\ PlannerInit
    /\ codec = NoCodec
    /\ PipelineInit

Init ==
    /\ OtherInit
    /\ store = bootstrap(0)
    /\ now = 0
    /\ hashOf \in [UserTables -> HashValues]
    /\ result = Result("bootstrap", <<>>, "Ok")
    /\ reader = Idle
    /\ writes = 0

\* The wall clock moves on.
Tick ==
    /\ now < MaxTime
    /\ now' = now + 1
    /\ result' = Result("tick", <<>>, "Ok")
    /\ UNCHANGED <<store, hashOf, reader, writes, otherVars>>

CreateDatabase(name) ==
    LET r == create_database(store, name, now)
    IN  /\ store' = r.store
        /\ result' = Result("create_database", <<name>>, r.res)
        /\ UNCHANGED <<now, hashOf, reader, writes, otherVars>>

DropDatabase(name) ==
    LET r == drop_database(store, name, now)
    IN  /\ store' = r.store
        /\ result' = Result("drop_database", <<name>>, r.res)
        /\ UNCHANGED <<now, hashOf, reader, writes, otherVars>>

\* overflow_checks: whether the build traps integer overflow (debug) or wraps
\* (release).
CreateTable(database, name, columns, overflow_checks) ==
    LET r == create_table(store, database, name, columns, HashOfName(name),
                          overflow_checks, now)
    IN  /\ store' = r.store
        /\ result' = Result("create_table", <<database, name, columns>>, r.res)
        /\ UNCHANGED <<now, hashOf, reader, writes, otherVars>>

Next ==
    \/ Tick
    \/ \E name \in UserDatabases : CreateDatabase(name)
    \/ \E name \in DatabaseArgs : DropDatabase(name)
    \/ \E c \in TableCalls, overflow_checks \in BOOLEAN :
          CreateTable(c[1], c[2], c[3], overflow_checks)

Spec == Init /\ [][Next]_vars

----------------------------------------------------------------------------
(* A reader of the catalog running beside the DDL *)

\* Catalog::table up to its first point lookup.
TableStart(database, name) ==
    /\ reader.pc = "idle"
    /\ LET found == TableLookup(store, database, name)
       IN  IF found = <<>>
           THEN /\ reader' = Idle
                /\ result' = Result("table", <<database, name>>, "TableNotFound")
           ELSE /\ reader' = [pc |-> "lookup", database |-> database,
                              table |-> name, value |-> found[1]]
                /\ result' = Result("table", <<database, name>>, "Pending")
    /\ UNCHANGED <<store, now, hashOf, writes, otherVars>>

\* Catalog::table from its second point lookup on.
TableEnd ==
    /\ reader.pc = "lookup"
    /\ result' = Result("table", <<reader.database, reader.table>>,
                        TableFinish(store, reader.value).res)
    /\ reader' = Idle
    /\ UNCHANGED <<store, now, hashOf, writes, otherVars>>

NextReader ==
    \/ Tick
    \/ CreateDatabase("abc")
    \/ \E c \in TableCalls, overflow_checks \in BOOLEAN :
          CreateTable(c[1], c[2], c[3], overflow_checks)
    \/ \E t \in TableArgs : TableStart(t[1], t[2])
    \/ TableEnd

SpecReader == Init /\ [][NextReader]_vars

----------------------------------------------------------------------------
(* Inserts into a user table *)

\* The number of write_tuple calls of a run.
MaxWrites == 4

UserColumns == << <<"a", "Integer">> >>

UserRows == {<<1>>, <<2>>}

\* The store after bootstrap and create_table("default", "test", a INT).
InitStorage ==
    /\ RuntimeInit
    /\ PlannerInit
    /\ codec = NoCodec
    /\ PipelineInit
    /\ insert = NoInsert
    /\ hashOf \in [UserTables -> HashValues]
    /\ store = create_table(bootstrap(0), "default", "test", UserColumns,
                            hashOf["test"], FALSE, 0).store
    /\ now = 0
    /\ result = Result("create_table", <<"default", "test", UserColumns>>, "Ok")
    /\ reader = Idle
    /\ writes = 0

UserTable == table(store, "default", "test").table

\* A source row of an insert: (row, freq).
Src(row, freq) == [row |-> row, freq |-> freq]

\* The sources of the insert statements: one row inserted or retracted, and
\* the VALUES lists (1),(2),(2) and (2),(2).
Sources ==
    {<<Src(row, freq)>> : row \in UserRows, freq \in {-1, 1}}
        \cup {<<Src(<<1>>, 1), Src(<<2>>, 1), Src(<<2>>, 1)>>,
              <<Src(<<2>>, 1), Src(<<2>>, 1)>>}

\* The write batch of a TableInsert: write_tuple(target, row, ts, freq) for
\* each (row, freq) of the source, in source order.
InsertBatch(target, source, ts) ==
    [i \in 1..Len(source) |-> Write(target, source[i].row, ts, source[i].freq)]

\* TableInsert: drains the source into one atomic batch.
table_insert(s, target, source, ts) ==
    atomic_write(s, InsertBatch(target, source, ts))

\* An INSERT statement run to completion at the current time.
Insert(source) ==
    /\ writes + Len(source) <= MaxWrites
    /\ store' = table_insert(store, UserTable, source, now)
    /\ result' = Result("insert", source, "Ok")
    /\ writes' = writes + Len(source)
    /\ UNCHANGED <<now, hashOf, reader, otherVars>>

----------------------------------------------------------------------------
(* SELECT statements: the parser's tree and what its executors yield *)

\* SQL text as its tokens; "UNION ALL", "GROUP BY" and "ORDER BY" are one
\* token each, and so is an expression list, a predicate and a sort list.
Tok(input, i) == IF i <= Len(input) THEN input[i] ELSE "<eof>"

Single == [op |-> "Single"]

ParseError == [op |-> "ParseError"]

IntegerOf(token) == CASE token = "0" -> 0 [] token = "1" -> 1 [] OTHER -> 2

\* limit_clause: LIMIT offset, limit | LIMIT limit OFFSET offset | LIMIT limit;
\* <<position after the clause, offset, limit>>.
limit_clause(input, i) ==
    IF Tok(input, i + 2) = ","
    THEN <<i + 4, IntegerOf(Tok(input, i + 1)), IntegerOf(Tok(input, i + 3))>>
    ELSE IF Tok(input, i + 2) = "OFFSET"
    THEN <<i + 4, IntegerOf(Tok(input, i + 3)), IntegerOf(Tok(input, i + 1))>>
    ELSE <<i + 2, 0, IntegerOf(Tok(input, i + 1))>>

\* table_reference_with_alias
table_reference_with_alias(name) ==
    [op |-> "TableAlias", alias |-> name,
     source |-> [op |-> "TableReference", table |-> name]]

RECURSIVE select(_, _)
RECURSIVE select_expr(_, _)
RECURSIVE from_item(_, _)
RECURSIVE UnionBranches(_, _, _)

\* from_item: a sub query in parentheses or a table reference, then an
\* optional AS alias.
from_item(input, i) ==
    LET item == IF Tok(input, i) = "("
                THEN LET sub == select(input, i + 1)
                     IN  IF Tok(input, sub.pos) = ")"
                         THEN [op |-> sub.op, pos |-> sub.pos + 1]
                         ELSE [op |-> ParseError, pos |-> sub.pos]
                ELSE [op |-> table_reference_with_alias(Tok(input, i)),
                      pos |-> i + 1]
    IN  IF Tok(input, item.pos) = "AS"
        THEN [op |-> [op |-> "TableAlias", alias |-> Tok(input, item.pos + 1),
                      source |-> item.op],
              pos |-> item.pos + 2]
        ELSE item

\* select_expr: SELECT expressions [FROM] [WHERE] [GROUP BY] [ORDER BY] [LIMIT]
select_expr(input, i) ==
    IF Tok(input, i) # "SELECT" THEN [op |-> ParseError, pos |-> i]
    ELSE
    LET expressions == Tok(input, i + 1)
        from == IF Tok(input, i + 2) = "FROM" THEN from_item(input, i + 3)
                ELSE [op |-> Single, pos |-> i + 2]
        has_where == Tok(input, from.pos) = "WHERE"
        p_where == IF has_where THEN from.pos + 2 ELSE from.pos
        filtered == IF has_where
                    THEN [op |-> "Filter", predicate |-> Tok(input, from.pos + 1),
                          source |-> from.op]
                    ELSE from.op
        has_group == Tok(input, p_where) = "GROUP BY"
        p_group == IF has_group THEN p_where + 2 ELSE p_where
        projected == IF has_group
                     THEN [op |-> "GroupBy", expressions |-> expressions,
                           key_expressions |-> Tok(input, p_where + 1),
                           source |-> filtered]
                     ELSE [op |-> "Project", distinct |-> FALSE,
                           expressions |-> expressions, source |-> filtered]
        has_order == Tok(input, p_group) = "ORDER BY"
        p_order == IF has_order THEN p_group + 2 ELSE p_group
        sorted == IF has_order
                  THEN [op |-> "Sort", sort_expressions |-> Tok(input, p_group + 1),
                        source |-> projected]
                  ELSE projected
        has_limit == Tok(input, p_order) = "LIMIT"
        lim == limit_clause(input, p_order)
    IN  IF has_limit
        THEN [op |-> [op |-> "Limit", offset |-> lim[2], limit |-> lim[3],
                      source |-> sorted],
              pos |-> lim[1]]
        ELSE [op |-> sorted, pos |-> p_order]

\* many0(preceded(UNION ALL, select_expr))
UnionBranches(input, i, rest) ==
    IF Tok(input, i) = "UNION ALL" /\ Tok(input, i + 1) = "SELECT"
    THEN LET branch == select_expr(input, i + 1)
         IN  UnionBranches(input, branch.pos, Append(rest, branch.op))
    ELSE [sources |-> rest, pos |-> i]

\* select: one select_expr, or the UnionAll of several.
select(input, i) ==
    LET first == select_expr(input, i)
        rest == UnionBranches(input, first.pos, <<>>)
    IN  IF rest.sources = <<>> THEN first
        ELSE [op |-> [op |-> "UnionAll", sources |-> <<first.op>> \o rest.sources],
              pos |-> rest.pos]

\* A predicate over the column a.
Holds(predicate, row) ==
    CASE predicate = "a > 1" -> row[1] > 1
      [] predicate = "a < 2" -> row[1] < 2
      [] OTHER -> FALSE

RECURSIVE SortRows(_, _)
\* Sort: stable, by the column a, ascending or descending.
SortRows(rows, desc) ==
    IF rows = <<>> THEN <<>>
    ELSE LET i == CHOOSE i \in 1..Len(rows) :
                     \A j \in 1..Len(rows) :
                         /\ (IF desc THEN rows[j].row[1] <= rows[i].row[1]
                             ELSE rows[i].row[1] <= rows[j].row[1])
                         /\ (rows[j].row[1] = rows[i].row[1] => i <= j)
         IN  <<rows[i]>> \o SortRows(SubSeq(rows, 1, i - 1)
                                        \o SubSeq(rows, i + 1, Len(rows)), desc)

RECURSIVE LimitRows(_, _, _)
\* Limit: skips offset rows counted by frequency, then emits until the
\* frequencies emitted reach limit.
LimitRows(rows, offset, limit) ==
    IF rows = <<>> \/ limit <= 0 THEN <<>>
    ELSE LET r == Head(rows) IN
         IF offset >= r.freq THEN LimitRows(Tail(rows), offset - r.freq, limit)
         ELSE LET take == IF r.freq - offset < limit THEN r.freq - offset ELSE limit
              IN  <<[r EXCEPT !.freq = take]>>
                      \o LimitRows(Tail(rows), 0, limit - take)

RECURSIVE GroupRows(_, _)
\* HashGroup on the column a with count(*): one row (a, count) per key.
GroupRows(rows, groups) ==
    IF rows = <<>> THEN groups
    ELSE LET r == Head(rows) IN
         IF \E g \in 1..Len(groups) : groups[g].row[1] = r.row[1]
         THEN GroupRows(Tail(rows),
                  [g \in 1..Len(groups) |->
                      IF groups[g].row[1] = r.row[1]
                      THEN [groups[g] EXCEPT !.row[2] = @ + r.freq]
                      ELSE groups[g]])
         ELSE GroupRows(Tail(rows),
                  Append(groups, [row |-> <<r.row[1], r.freq>>, freq |-> 1]))

\* A table scan reading as of the millisecond before the current one.
ScanTimestamp_BeforeNow == now - 1

\* The timestamp build_operator gives every TableScan: LogicalTimestamp::MAX.
ScanTimestamp == LogicalTimestampMAX

RECURSIVE Execute(_, _, _)
RECURSIVE ExecuteAll(_, _, _)
\* The (row, freq) pairs the executor of a plan yields, in order; table
\* references are resolved to t and scanned at the timestamp of their
\* TableScan.
Execute(plan, s, t) ==
    CASE plan.op = "Single" -> <<[row |-> <<>>, freq |-> 1]>>
      [] plan.op = "TableReference" -> full_scan(s, t, ScanTimestamp)
      [] plan.op = "TableAlias" -> Execute(plan.source, s, t)
      [] plan.op = "Filter" ->
            SelectSeq(Execute(plan.source, s, t),
                      LAMBDA r : Holds(plan.predicate, r.row))
      [] plan.op = "Project" -> Execute(plan.source, s, t)
      [] plan.op = "GroupBy" -> GroupRows(Execute(plan.source, s, t), <<>>)
      [] plan.op = "Sort" ->
            SortRows(Execute(plan.source, s, t), plan.sort_expressions = "a DESC")
      [] plan.op = "Limit" ->
            LimitRows(Execute(plan.source, s, t), plan.offset, plan.limit)
      [] plan.op = "UnionAll" -> ExecuteAll(plan.sources, s, t)
      [] OTHER -> <<>>

\* UnionAll: exhausts its sources in declared order.
ExecuteAll(sources, s, t) ==
    IF sources = <<>> THEN <<>>
    ELSE Execute(Head(sources), s, t) \o ExecuteAll(Tail(sources), s, t)

RECURSIVE Rendered(_)
\* The rows a client receives: a row of frequency k is k rows.
Rendered(rows) ==
    IF rows = <<>> THEN <<>>
    ELSE LET r == Head(rows) IN
         IF r.freq <= 0 THEN Rendered(Tail(rows))
         ELSE <<r.row>> \o Rendered(<<[r EXCEPT !.freq = @ - 1]>> \o Tail(rows))

UnionOrderQuery ==
    <<"SELECT", "a", "FROM", "test", "WHERE", "a > 1", "UNION ALL",
      "SELECT", "a", "FROM", "test", "WHERE", "a < 2", "ORDER BY", "a">>

GroupCountQuery ==
    <<"SELECT", "a, count(*)", "FROM", "test", "GROUP BY", "a", "ORDER BY", "a">>

\* The statements of the model.
Statements ==
    { UnionOrderQuery,
      <<"SELECT", "a", "FROM", "(", "SELECT", "a", "FROM", "test", "WHERE", "a > 1",
        "UNION ALL", "SELECT", "a", "FROM", "test", "WHERE", "a < 2", ")", "AS", "u",
        "ORDER BY", "a DESC", "LIMIT", "1", ",", "2">>,
      GroupCountQuery }

\* A SELECT statement parsed and run to completion on the user table.
Select(input) ==
    /\ result' = Result("select", input,
                        Rendered(Execute(select(input, 1).op, store, UserTable)))
    /\ UNCHANGED <<store, now, hashOf, reader, writes, otherVars>>

NextStorage ==
    \/ Tick
    \/ \E source \in Sources : Insert(source)
    \/ \E input \in Statements : Select(input)

SpecStorage == InitStorage /\ [][NextStorage]_vars

----------------------------------------------------------------------------
(* A TableInsert row by row *)

\* write_tuple inside atomic_write writing to the store at once.
RowWritten_WriteThrough(s, batch, w) ==
    [store |-> write_tuple(s, w.table, w.tuple, w.ts, w.freq), batch |-> batch]

\* write_tuple inside atomic_write: the write joins the batch, the store is
\* as it was.
RowWritten(s, batch, w) == [store |-> s, batch |-> Append(batch, w)]

\* The sources of the inserts that are followed row by row.
InsertSources ==
    {<<Src(<<1>>, 1), Src(<<2>>, 1), Src(<<2>>, 1)>>,
     <<Src(<<2>>, 1), Src(<<1>>, -1)>>,
     <<Src(<<2>>, -1)>>}

\* TableInsert::advance begins: the timestamp is taken and the batch opened.
InsertStart(source) ==
    /\ insert.pc = "idle"
    /\ writes + Len(source) <= MaxWrites
    /\ insert' = [pc |-> "draining", source |-> source, pos |-> 0,
                  batch |-> <<>>, ts |-> now, emitted |-> 0]
    /\ result' = Result("insert", source, "Pending")
    /\ UNCHANGED <<store, now, hashOf, reader, writes, runtimeVars, plannerVars, codec, pipelineVars>>

\* The next (row, freq) of the source is written into the batch.
InsertRow ==
    /\ insert.pc = "draining"
    /\ insert.pos < Len(insert.source)
    /\ LET next == insert.source[insert.pos + 1]
           r == RowWritten(store, insert.batch,
                           Write(UserTable, next.row, insert.ts, next.freq))
       IN  /\ store' = r.store
           /\ insert' = [insert EXCEPT !.pos = @ + 1, !.batch = r.batch]
    /\ UNCHANGED <<now, hashOf, result, reader, writes, runtimeVars, plannerVars, codec, pipelineVars>>

\* The source, or the commit of the batch, returns a storage error: the
\* statement fails and the batch is discarded.
InsertFails ==
    /\ insert.pc = "draining"
    /\ insert' = [insert EXCEPT !.pc = "idle", !.batch = <<>>]
    /\ result' = Result("insert", insert.source, "StorageError")
    /\ UNCHANGED <<store, now, hashOf, reader, writes, runtimeVars, plannerVars, codec, pipelineVars>>

\* The source is exhausted: the batch is committed and the insert returns
\* without a row.
InsertCommit ==
    /\ insert.pc = "draining"
    /\ insert.pos = Len(insert.source)
    /\ store' = atomic_write(store, insert.batch)
    /\ insert' = [insert EXCEPT !.pc = "idle", !.batch = <<>>]
    /\ result' = Result("insert", insert.source, "Ok")
    /\ writes' = writes + Len(insert.source)
    /\ UNCHANGED <<now, hashOf, reader, runtimeVars, plannerVars, codec, pipelineVars>>

NextInsert ==
    \/ Tick
    \/ \E source \in InsertSources : InsertStart(source)
    \/ InsertRow
    \/ InsertFails
    \/ InsertCommit

SpecInsert == InitStorage /\ [][NextInsert]_vars

----------------------------------------------------------------------------
(* The runtime: connections, kill flags, statements *)

\* The number of new_connection calls of a run.
MaxConnections == 2

\* The number of rows the source of the running statement yields.
MaxRows == 2

\* A lock that is granted also while another thread holds it.
WriteLockFree_NoExclusion(l) == TRUE

\* RwLock::write on connections_state: granted when nobody holds the lock.
WriteLockFree(l) == l = "none"

\* HashMap::insert
MapInsert(map, key, value) ==
    [k \in DOMAIN map \cup {key} |-> IF k = key THEN value ELSE map[k]]

\* HashMap::remove
MapRemove(map, key) == [k \in DOMAIN map \ {key} |-> map[k]]

\* Session::new(connection_id): the kill flag starts false.
NewSession(connection_id) == [connection_id |-> connection_id, kill_flag |-> FALSE]

\* Weak::upgrade: succeeds while a strong reference to the connection is left.
Upgrades(c) == c.state = "live"

\* new_connection, line 63: the write lock is taken.
NewConnectionLock(t) ==
    /\ threads[t].pc = "idle"
    /\ connections_state.connection_id_counter < MaxConnections
    /\ WriteLockFree(lock)
    /\ lock' = t
    /\ threads' = [threads EXCEPT ![t].pc = "new_locked"]
    /\ UNCHANGED <<connections_state, conns, exec, catalogVars, plannerVars, codec, pipelineVars>>

\* new_connection, line 64: connection_id_counter += 1.
NewConnectionCount(t) ==
    /\ threads[t].pc = "new_locked"
    /\ connections_state' =
          [connections_state EXCEPT !.connection_id_counter = @ + 1]
    /\ threads' = [threads EXCEPT ![t].pc = "new_counted"]
    /\ UNCHANGED <<lock, conns, exec, catalogVars, plannerVars, codec, pipelineVars>>

\* new_connection, lines 65-78: the id is read from the counter, the session
\* and the connection are built, the weak handle is put into the map, the
\* connection is returned and the lock released.
NewConnectionInsert(t) ==
    LET connection_id == connections_state.connection_id_counter
        connection == [connection_id |-> connection_id,
                       session |-> NewSession(connection_id),
                       state |-> "live"]
    IN  /\ threads[t].pc = "new_counted"
        /\ conns' = Append(conns, connection)
        /\ connections_state' =
              [connections_state EXCEPT
                  !.connections = MapInsert(@, connection_id, Len(conns) + 1)]
        /\ lock' = IF lock = t THEN "none" ELSE lock
        /\ threads' = [threads EXCEPT ![t] = ThreadIdle]
        /\ UNCHANGED <<exec, catalogVars, plannerVars, codec, pipelineVars>>

\* kill_connection, line 83: the write lock is taken.
KillConnectionLock(t, connection_id) ==
    /\ threads[t].pc = "idle"
    /\ WriteLockFree(lock)
    /\ lock' = t
    /\ threads' = [threads EXCEPT ![t].pc = "kill_locked",
                                  ![t].connection_id = connection_id]
    /\ UNCHANGED <<connections_state, conns, exec, catalogVars, plannerVars, codec, pipelineVars>>

\* The connections after kill_connection that flags every live connection.
KilledConns_All(connection_id) ==
    [i \in 1..Len(conns) |->
        IF Upgrades(conns[i])
        THEN [conns[i] EXCEPT !.session.kill_flag = TRUE]
        ELSE conns[i]]

\* kill_connection, lines 84-91: the connections after get_mut, upgrade and
\* the store of true into the kill flag.
KilledConns(connection_id) ==
    LET map == connections_state.connections
    IN  IF connection_id \in DOMAIN map /\ Upgrades(conns[map[connection_id]])
        THEN [conns EXCEPT ![map[connection_id]].session.kill_flag = TRUE]
        ELSE conns

\* kill_connection, lines 84-92.
KillConnectionStore(t) ==
    /\ threads[t].pc = "kill_locked"
    /\ conns' = KilledConns(threads[t].connection_id)
    /\ lock' = IF lock = t THEN "none" ELSE lock
    /\ threads' = [threads EXCEPT ![t] = ThreadIdle]
    /\ UNCHANGED <<connections_state, exec, catalogVars, plannerVars, codec, pipelineVars>>

\* The last strong reference to a connection is dropped by thread t: the
\* weak handle in the map no longer upgrades, and the connection's Drop runs
\* remove_connection on t.
DropConnection(t, i) ==
    /\ threads[t].pc = "idle"
    /\ i \in 1..Len(conns)
    /\ conns[i].state = "live"
    /\ exec.pc # "running" \/ exec.conn # i
    /\ conns' = [conns EXCEPT ![i].state = "dropping"]
    /\ threads' = [threads EXCEPT ![t] =
                      [pc |-> "drop", connection_id |-> conns[i].connection_id,
                       conn |-> i]]
    /\ UNCHANGED <<connections_state, lock, exec, catalogVars, plannerVars, codec, pipelineVars>>

\* remove_connection, line 96: the write lock is taken.
RemoveConnectionLock(t) ==
    /\ threads[t].pc = "drop"
    /\ WriteLockFree(lock)
    /\ lock' = t
    /\ threads' = [threads EXCEPT ![t].pc = "remove_locked"]
    /\ UNCHANGED <<connections_state, conns, exec, catalogVars, plannerVars, codec, pipelineVars>>

\* The map after a remove_connection that removes nothing.
RemovedFrom_Nothing(map, connection_id) == map

\* remove_connection, line 97.
RemovedFrom(map, connection_id) == MapRemove(map, connection_id)

\* remove_connection, lines 97-98; the drop of the connection is over.
RemoveConnection(t) ==
    /\ threads[t].pc = "remove_locked"
    /\ connections_state' =
          [connections_state EXCEPT
              !.connections = RemovedFrom(@, threads[t].connection_id)]
    /\ conns' = [conns EXCEPT ![threads[t].conn].state = "dropped"]
    /\ lock' = IF lock = t THEN "none" ELSE lock
    /\ threads' = [threads EXCEPT ![t] = ThreadIdle]
    /\ UNCHANGED <<exec, catalogVars, plannerVars, codec, pipelineVars>>

\* A statement of connection i starts: build_executor with the session.
StartStatement(i) ==
    /\ exec.pc = "idle"
    /\ i \in 1..Len(conns)
    /\ conns[i].state = "live"
    /\ exec' = [pc |-> "running", conn |-> i, pos |-> 0, kill_seen |-> FALSE,
                res |-> "None"]
    /\ UNCHANGED <<connections_state, lock, conns, threads, catalogVars,
                   plannerVars, codec, pipelineVars>>

\* Executor::advance between two source rows (ProjectExecutor::advance): the
\* next source row is pulled and evaluated; the kill flag is not read.
\* kill_seen records that the flag was set at this yield point.
Advance ==
    /\ exec.pc = "running"
    /\ exec.pos < MaxRows
    /\ exec' = [exec EXCEPT !.pos = @ + 1,
                            !.kill_seen = @ \/ conns[exec.conn].session.kill_flag]
    /\ UNCHANGED <<connections_state, lock, conns, threads, catalogVars,
                   plannerVars, codec, pipelineVars>>

\* The source is exhausted: the statement completes. ExecutionError has the
\* StorageError variant only, and no storage read fails here.
Finish ==
    /\ exec.pc = "running"
    /\ exec.pos = MaxRows
    /\ exec' = [exec EXCEPT !.pc = "done", !.res = "Ok",
                            !.kill_seen = @ \/ conns[exec.conn].session.kill_flag]
    /\ UNCHANGED <<connections_state, lock, conns, threads, catalogVars,
                   plannerVars, codec, pipelineVars>>

NextRuntime ==
    \/ \E t \in Threads :
          \/ NewConnectionLock(t)
          \/ NewConnectionCount(t)
          \/ NewConnectionInsert(t)
          \/ \E connection_id \in 1..MaxConnections : KillConnectionLock(t, connection_id)
          \/ KillConnectionStore(t)
          \/ \E i \in 1..MaxConnections : DropConnection(t, i)
          \/ RemoveConnectionLock(t)
          \/ RemoveConnection(t)
    \/ \E i \in 1..MaxConnections : StartStatement(i)
    \/ Advance
    \/ Finish

SpecRuntime == Init /\ [][NextRuntime]_vars

----------------------------------------------------------------------------
(* The planner: Planner::validate and the catalog lock *)

\* The steps of a statement in order: the passes of Planner::validate, then
\* the rest of planning and the execution.
Passes ==
    <<"sub_in_special_vars", "normalize_column_aliases", "resolve_tables",
      "expand_stars", "validate_values_types", "compile_functions",
      "project_to_groupby", "check_for_aggregates", "check_predicates",
      "check_inserts", "check_unions", "execute">>

\* The passes that return a PlannerError through `?`.
Fallible ==
    {"resolve_tables", "validate_values_types", "compile_functions",
     "check_for_aggregates", "check_predicates", "check_inserts", "check_unions"}

PassIndex(pass) == CHOOSE i \in 1..Len(Passes) : Passes[i] = pass

\* The step after a pass; after the last one the statement is over.
NextPass(pass) ==
    IF pass = "idle" THEN Passes[1]
    ELSE IF PassIndex(pass) = Len(Passes) THEN "idle"
    ELSE Passes[PassIndex(pass) + 1]

\* A validate that keeps the read guard until the statement is over.
HoldsCatalogRead_ToTheEnd(pass) ==
    pass # "idle" /\ PassIndex(pass) >= PassIndex("resolve_tables")

\* The block of validate in which the read guard `catalog` is alive.
HoldsCatalogRead(pass) == pass = "resolve_tables"

\* The read side after thread q has gone from one step to another.
ReadersAfter(readers, q, pass) ==
    IF HoldsCatalogRead(pass) THEN readers \cup {q} ELSE readers \ {q}

\* Thread q finishes its current step and goes on to the next one; going
\* into resolve_tables it takes the read lock, which waits for a writer.
Pass(q) ==
    LET to == NextPass(planner[q]) IN
    /\ (HoldsCatalogRead(to) /\ q \notin catalog_lock.readers)
          => catalog_lock.writer = "none"
    /\ planner' = [planner EXCEPT ![q] = to]
    /\ catalog_lock' = [catalog_lock EXCEPT !.readers = ReadersAfter(@, q, to)]
    /\ UNCHANGED <<catalogVars, runtimeVars, codec, pipelineVars>>

\* The current pass of thread q returns an error: validate returns, and
\* every guard it holds is dropped.
PassFails(q) ==
    /\ planner[q] \in Fallible
    /\ planner' = [planner EXCEPT ![q] = "idle"]
    /\ catalog_lock' = [catalog_lock EXCEPT !.readers = @ \ {q}]
    /\ UNCHANGED <<catalogVars, runtimeVars, codec, pipelineVars>>

\* A DDL statement asks for the write side of the catalog lock.
DdlWait ==
    /\ planner["ddl"] = "idle"
    /\ planner' = [planner EXCEPT !["ddl"] = "waiting"]
    /\ UNCHANGED <<catalog_lock, catalogVars, runtimeVars, codec, pipelineVars>>

\* RwLock::write is granted: no reader and no writer holds the lock.
DdlLock ==
    /\ planner["ddl"] = "waiting"
    /\ catalog_lock.readers = {}
    /\ catalog_lock.writer = "none"
    /\ planner' = [planner EXCEPT !["ddl"] = "writing"]
    /\ catalog_lock' = [catalog_lock EXCEPT !.writer = "ddl"]
    /\ UNCHANGED <<catalogVars, runtimeVars, codec, pipelineVars>>

\* The DDL statement has changed the catalog and releases the lock.
DdlUnlock ==
    /\ planner["ddl"] = "writing"
    /\ planner' = [planner EXCEPT !["ddl"] = "idle"]
    /\ catalog_lock' = [catalog_lock EXCEPT !.writer = "none"]
    /\ UNCHANGED <<catalogVars, runtimeVars, codec, pipelineVars>>

NextPlanner ==
    \/ \E q \in Queries : Pass(q) \/ PassFails(q)
    \/ DdlWait
    \/ DdlLock
    \/ DdlUnlock

SpecPlanner == Init /\ [][NextPlanner]_vars

----------------------------------------------------------------------------
(* The sortable encoding of a datum                                        *)

\* A datum is a variant and its value as a sequence of numbers: none for Null,
\* 0 or 1 for a Boolean, the number of an Integer or a BigInt, the mantissa and
\* the scale of a Decimal, the bytes of a ByteA and of the source text of a
\* Jsonpath. The three ByteA forms hold the same bytes and the two Jsonpath
\* forms the same expression.
Datum(tag, v) == [v |-> v, tag |-> tag]

ByteATags == {"ByteARef", "ByteAOwned", "ByteAInline"}

JsonpathTags == {"Jsonpath", "JsonpathRef"}

is_asc(sort_order) == sort_order = "Asc"

\* Every byte inverted for the descending order.
Ordered(bytes, sort_order) == IF is_asc(sort_order) THEN bytes ELSE [k \in 1..Len(bytes) |-> 255 - bytes[k]]

\* Three big-endian bytes of a number below 2^24.
BE3(j) == <<j \div 65536, (j \div 256) % 256, j % 256>>

\* An i32 big-endian with its sign bit flipped.
I32Bytes(i) == IF i >= 0 THEN <<128 + (i \div 16777216)>> \o BE3(i % 16777216) ELSE <<((i + 2147483647) + 1) \div 16777216>> \o BE3(((i + 2147483647) + 1) % 16777216)

\* An i64 big-endian with its sign bit flipped; the values here lie in the
\* 32 bit range, the upper word is the sign extension.
I64Bytes(i) == IF i >= 0 THEN <<128, 0, 0, 0, i \div 16777216>> \o BE3(i % 16777216) ELSE <<127, 255, 255, 255, 128 + (((i + 2147483647) + 1) \div 16777216)>> \o BE3(((i + 2147483647) + 1) % 16777216)

RECURSIVE Digits(_)
\* The decimal digits of a positive number, most significant first.
Digits(n) == IF n < 10 THEN <<n>> ELSE Append(Digits(n \div 10), n % 10)

RECURSIVE StripZeros(_)
\* A positive number without its trailing zeros.
StripZeros(n) == IF n % 10 = 0 THEN StripZeros(n \div 10) ELSE n

\* A decimal normalised to sign, exponent and mantissa: the sign byte (0
\* negative, 1 zero, 2 positive), the number of digits before the decimal point
\* offset by 128, the significant digits each plus one, and a 0 to end; the
\* exponent and the mantissa are inverted for a negative value.
DecimalBytes(num, scale) == IF num = 0 THEN <<1>> ELSE LET abs == IF num < 0 THEN 0 - num ELSE num digits == Digits(StripZeros(abs)) body == <<128 + Len(Digits(abs)) - scale>> \o [k \in 1..Len(digits) |-> digits[k] + 1] \o <<0>> IN IF num < 0 THEN <<0>> \o Ordered(body, "Desc") ELSE <<2>> \o body

RECURSIVE Escape(_)
\* 0x00 becomes 0x00 0xFF.
Escape(bytes) == IF bytes = <<>> THEN <<>> ELSE (IF Head(bytes) = 0 THEN <<0, 255>> ELSE <<Head(bytes)>>) \o Escape(Tail(bytes))

\* The payload a variant's write_sortable_bytes appends; a byte string is
\* escaped and ended by 0x00 0x01.
Payload(datum) == CASE datum.tag = "Integer" -> I32Bytes(datum.v[1]) [] datum.tag = "BigInt" -> I64Bytes(datum.v[1]) [] datum.tag = "Decimal" -> DecimalBytes(datum.v[1], datum.v[2]) [] datum.tag \in ByteATags \cup JsonpathTags -> Escape(datum.v) \o <<0, 1>> [] OTHER -> <<>>

\* The number a variant is tagged with.
TagOf(datum) == CASE datum.tag = "Null" -> 1 [] datum.tag = "Boolean" -> 2 + datum.v[1] [] datum.tag = "Integer" -> 4 [] datum.tag = "BigInt" -> 5 [] datum.tag = "Decimal" -> 6 [] datum.tag \in ByteATags -> 7 [] datum.tag \in JsonpathTags -> 8

\* Datum::as_sortable_bytes: the tag byte, 1 to 8 ascending and its bitwise
\* not descending, and the payload appended to the buffer.
as_sortable_bytes(datum, sort_order, buffer) == buffer \o <<IF is_asc(sort_order) THEN TagOf(datum) ELSE 255 - TagOf(datum)>> \o Ordered(Payload(datum), sort_order)

\* What a read returns: the value, the bytes left and whether the bytes were
\* an encoding at all (the program panics when they are not).
Read(v, rem, ok) == [v |-> v, rem |-> rem, ok |-> ok]

Drop(bytes, n) == SubSeq(bytes, n + 1, Len(bytes))

\* The number three big-endian bytes stand for.
FromBE3(b) == b[1] * 65536 + b[2] * 256 + b[3]

ReadI32(sort_order, rem) == IF Len(rem) < 4 THEN Read(<<0>>, <<>>, FALSE) ELSE LET b == Ordered(SubSeq(rem, 1, 4), sort_order) low == FromBE3(Drop(b, 1)) IN Read(<<IF b[1] >= 128 THEN (b[1] - 128) * 16777216 + low ELSE (b[1] * 16777216 + low) - 2147483647 - 1>>, Drop(rem, 4), TRUE)

ReadI64(sort_order, rem) == IF Len(rem) < 8 THEN Read(<<0>>, <<>>, FALSE) ELSE LET b == Ordered(SubSeq(rem, 1, 8), sort_order) low == FromBE3(Drop(b, 5)) IN IF SubSeq(b, 1, 4) = <<128, 0, 0, 0>> /\ b[5] < 128 THEN Read(<<b[5] * 16777216 + low>>, Drop(rem, 8), TRUE) ELSE IF SubSeq(b, 1, 4) = <<127, 255, 255, 255>> /\ b[5] >= 128 THEN Read(<<((b[5] - 128) * 16777216 + low) - 2147483647 - 1>>, Drop(rem, 8), TRUE) ELSE Read(<<0>>, Drop(rem, 8), FALSE)

RECURSIVE ReadEscaped(_, _, _)
\* The bytes up to the end mark, unescaped; end is the mark's second byte.
ReadEscaped(rem, end, acc) == IF rem = <<>> THEN Read(acc, <<>>, FALSE) ELSE IF rem[1] # 0 THEN ReadEscaped(Drop(rem, 1), end, Append(acc, rem[1])) ELSE IF Len(rem) < 2 THEN Read(acc, <<>>, FALSE) ELSE IF rem[2] = end THEN Read(acc, Drop(rem, 2), TRUE) ELSE IF rem[2] = 255 THEN ReadEscaped(Drop(rem, 2), end, Append(acc, 0)) ELSE Read(acc, <<>>, FALSE)

ReadByteA(sort_order, rem) == LET r == ReadEscaped(Ordered(rem, sort_order), 1, <<>>) IN Read(r.v, Drop(rem, Len(rem) - Len(r.rem)), r.ok)

RECURSIVE ReadDigits(_, _, _)
\* The mantissa's digits up to the 0 that ends them, and their number.
ReadDigits(rem, num, len) == IF rem = <<>> \/ rem[1] > 10 THEN Read(<<num, len>>, <<>>, FALSE) ELSE IF rem[1] = 0 THEN Read(<<num, len>>, Drop(rem, 1), TRUE) ELSE ReadDigits(Drop(rem, 1), num * 10 + (rem[1] - 1), len + 1)

RECURSIVE Pow10(_)
Pow10(n) == IF n = 0 THEN 1 ELSE 10 * Pow10(n - 1)

\* The decimal of a mantissa of len digits with exp digits before the point.
FromMantissa(num, len, exp) == IF len >= exp THEN <<num, len - exp>> ELSE <<num * Pow10(exp - len), 0>>

ReadDecimal(sort_order, rem) == IF rem = <<>> THEN Read(<<0, 0>>, <<>>, FALSE) ELSE LET b == Ordered(rem, sort_order) body == IF b[1] = 0 THEN Ordered(Drop(b, 1), "Desc") ELSE Drop(b, 1) m == ReadDigits(Drop(body, 1), 0, 0) IN IF b[1] = 1 THEN Read(<<0, 0>>, Drop(rem, 1), TRUE) ELSE IF b[1] > 2 \/ body = <<>> \/ ~m.ok THEN Read(<<0, 0>>, <<>>, FALSE) ELSE LET d == FromMantissa(m.v[1], m.v[2], body[1] - 128) IN Read(IF b[1] = 0 THEN <<0 - d[1], d[2]>> ELSE d, Drop(rem, Len(rem) - Len(m.rem)), TRUE)

\* The sort order a tag byte was written with: always ascending.
SortOrderOf_AlwaysAsc(tag_byte) == "Asc"

\* The sort order a tag byte was written with, inferred from its half of the
\* byte range.
SortOrderOf(tag_byte) == IF tag_byte < 127 THEN "Asc" ELSE "Desc"

\* The datum a payload read stands for.
Decoded(tag, r) == Read(Datum(tag, r.v), r.rem, r.ok)

\* Datum::from_sortable_bytes: the datum at the head of the buffer and the
\* bytes after it; any other tag byte panics.
from_sortable_bytes(buffer) == IF buffer = <<>> THEN Read(Datum("Null", <<>>), <<>>, FALSE) ELSE LET rem == Drop(buffer, 1) sort_order == SortOrderOf(buffer[1]) IN CASE buffer[1] \in {1, 254} -> Read(Datum("Null", <<>>), rem, TRUE) [] buffer[1] \in {2, 253} -> Read(Datum("Boolean", <<0>>), rem, TRUE) [] buffer[1] \in {3, 252} -> Read(Datum("Boolean", <<1>>), rem, TRUE) [] buffer[1] \in {4, 251} -> Decoded("Integer", ReadI32(sort_order, rem)) [] buffer[1] \in {5, 250} -> Decoded("BigInt", ReadI64(sort_order, rem)) [] buffer[1] \in {6, 249} -> Decoded("Decimal", ReadDecimal(sort_order, rem)) [] buffer[1] \in {7, 248} -> Decoded("ByteAOwned", ReadByteA(sort_order, rem)) [] buffer[1] \in {8, 247} -> Decoded("Jsonpath", ReadByteA(sort_order, rem)) [] OTHER -> Read(Datum("Null", <<>>), <<>>, FALSE)

\* Decimals are equal when they are the same number, whatever their scales.
DecimalEq(a, b) == a[1] * Pow10(b[2]) = b[1] * Pow10(a[2])

\* Datum::sql_eq: equality by variant, the ByteA forms by their bytes.
sql_eq(a, b, null_safe) == CASE a.tag = "Null" -> b.tag = "Null" /\ null_safe [] a.tag \in {"Boolean", "Integer", "BigInt"} -> b.tag = a.tag /\ b.v = a.v [] a.tag = "Decimal" -> b.tag = "Decimal" /\ DecimalEq(a.v, b.v) [] a.tag \in ByteATags -> b.tag \in ByteATags /\ b.v = a.v [] a.tag \in JsonpathTags -> b.tag \in JsonpathTags /\ b.v = a.v

RECURSIVE BytesCmp(_, _)
\* The lexicographic order of two byte strings, a prefix first.
BytesCmp(a, b) == IF a = <<>> THEN (IF b = <<>> THEN "Equal" ELSE "Less") ELSE IF b = <<>> THEN "Greater" ELSE IF a[1] < b[1] THEN "Less" ELSE IF a[1] > b[1] THEN "Greater" ELSE BytesCmp(Tail(a), Tail(b))

\* The order of two numbers.
NumCmp(x, y) == IF x < y THEN "Less" ELSE IF x > y THEN "Greater" ELSE "Equal"

\* Ord::cmp for Datum: Null is equal to Null and less than anything else; any
\* other variant is compared by value with a datum of its own variant and is
\* Greater than a datum of any other.
cmp(a, b) == CASE a.tag = "Null" -> (IF b.tag = "Null" THEN "Equal" ELSE "Less") [] a.tag \in {"Boolean", "Integer", "BigInt"} -> (IF b.tag = a.tag THEN NumCmp(a.v[1], b.v[1]) ELSE "Greater") [] a.tag = "Decimal" -> (IF b.tag = "Decimal" THEN NumCmp(a.v[1] * Pow10(b.v[2]), b.v[1] * Pow10(a.v[2])) ELSE "Greater") [] a.tag \in ByteATags -> (IF b.tag \in ByteATags THEN BytesCmp(a.v, b.v) ELSE "Greater") [] a.tag \in JsonpathTags -> (IF b.tag \in JsonpathTags THEN BytesCmp(a.v, b.v) ELSE "Greater")

MaxDatums == 2

\* The datums that are encoded: Null, the Booleans, Integers and BigInts of
\* both signs with the ends of the i32 range, Decimals of both signs with zero
\* and one number at two scales (1.2 and 1.20), byte strings in the three
\* forms ("abcd", the empty one, ones that hold 0x00 and 0xFF) and the paths
\* "$" and "$.a".
Datums ==
    {Datum("Null", <<>>), Datum("Boolean", <<0>>), Datum("Boolean", <<1>>)}
    \cup {Datum("Integer", <<i>>) : i \in {0 - 2147483647 - 1, 0 - 10, 0, 1000, 2147483647}}
    \cup {Datum("BigInt", <<i>>) : i \in {0 - 6876, 0, 890934467}}
    \cup {Datum("Decimal", d) : d \in {<<0 - 32678, 2>>, <<0, 1>>, <<12, 1>>, <<120, 2>>, <<500, 0>>}}
    \cup {Datum("ByteARef", <<97, 98, 99, 100>>), Datum("ByteAOwned", <<>>), Datum("ByteAInline", <<97, 0, 98>>), Datum("ByteARef", <<0>>), Datum("ByteAOwned", <<255, 1>>)}
    \cup {Datum("Jsonpath", <<36>>), Datum("JsonpathRef", <<36, 46, 97>>)}

SortOrders == {"Asc", "Desc"}

\* A datum is encoded with an order at the end of the buffer.
Encode(datum, sort_order) ==
    /\ codec.pc = "write"
    /\ Len(codec.written) < MaxDatums
    /\ codec' = [codec EXCEPT !.written = Append(@, [datum |-> datum, sort_order |-> sort_order]), !.buffer = as_sortable_bytes(datum, sort_order, @)]
    /\ UNCHANGED <<catalogVars, runtimeVars, plannerVars, pipelineVars>>

\* The buffer is handed to a reader.
DecodeStart ==
    /\ codec.pc = "write"
    /\ codec.written # <<>>
    /\ codec' = [codec EXCEPT !.pc = "read", !.rem = codec.buffer]
    /\ UNCHANGED <<catalogVars, runtimeVars, plannerVars, pipelineVars>>

\* The reader decodes the datum at the head of what is left.
Decode ==
    /\ codec.pc = "read"
    /\ codec.rem # <<>>
    /\ LET r == from_sortable_bytes(codec.rem)
       IN  codec' = [codec EXCEPT !.pc = IF r.ok THEN "read" ELSE "panic", !.decoded = Append(@, r.v), !.rem = r.rem]
    /\ UNCHANGED <<catalogVars, runtimeVars, plannerVars, pipelineVars>>

NextCodec ==
    \/ \E datum \in Datums, sort_order \in SortOrders : Encode(datum, sort_order)
    \/ DecodeStart
    \/ Decode

SpecCodec == Init /\ [][NextCodec]_vars

----------------------------------------------------------------------------
(* Expressions and their evaluation *)

\* An expression: a constant of a data type (kind "Constant", i its number, f
\* its type), a compiled column reference (i its offset) or a compiled
\* function call (f its name). Every expression has the four fields.
Constant(i, datatype) == [i |-> i, args |-> <<>>, kind |-> "Constant", f |-> datatype]

CompiledColumnReference(offset) == [i |-> offset, args |-> <<>>, kind |-> "CompiledColumnReference", f |-> ""]

CompiledFunctionCall(name, args) == [i |-> 0, args |-> args, kind |-> "CompiledFunctionCall", f |-> name]

\* The function a call runs: "!=" as NE::execute, "=" its negation, "and" by
\* SQL's three-valued logic.
FunctionExecute(name, args) ==
    CASE name = "!=" -> IF args[1].tag = "Null" \/ args[2].tag = "Null" THEN Datum("Null", <<>>)
                        ELSE Datum("Boolean", <<IF sql_eq(args[1], args[2], FALSE) THEN 0 ELSE 1>>)
      [] name = "=" -> IF args[1].tag = "Null" \/ args[2].tag = "Null" THEN Datum("Null", <<>>)
                       ELSE Datum("Boolean", <<IF sql_eq(args[1], args[2], FALSE) THEN 1 ELSE 0>>)
      [] name = "and" -> IF args[1] = Datum("Boolean", <<0>>) \/ args[2] = Datum("Boolean", <<0>>) THEN Datum("Boolean", <<0>>)
                         ELSE IF args[1].tag = "Null" \/ args[2].tag = "Null" THEN Datum("Null", <<>>)
                         ELSE Datum("Boolean", <<1>>)

RECURSIVE eval_scalar(_, _)
\* EvalScalar for Expression: the datum an expression has on a row.
eval_scalar(expr, row) ==
    CASE expr.kind = "Constant" -> Datum(expr.f, IF expr.f = "Null" THEN <<>> ELSE <<expr.i>>)
      [] expr.kind = "CompiledColumnReference" -> row[expr.i + 1]
      [] expr.kind = "CompiledFunctionCall" ->
            FunctionExecute(expr.f, [k \in 1..Len(expr.args) |-> eval_scalar(expr.args[k], row)])

\* EvalScalarRow for Vec<Expression>: one datum per expression.
eval_scalar_row(expressions, source) == [k \in 1..Len(expressions) |-> eval_scalar(expressions[k], source)]

RECURSIVE decompose_predicate(_)
\* decompose_predicate: the conjuncts of a predicate, split at its top-level
\* ands.
decompose_predicate(expr) ==
    IF expr.kind = "CompiledFunctionCall" /\ expr.f = "and"
    THEN decompose_predicate(expr.args[1]) \o decompose_predicate(expr.args[2])
    ELSE <<expr>>

RECURSIVE combine_predicates(_)
\* combine_predicates: the conjunction of a list of predicates, true for none.
combine_predicates(predicates) ==
    IF predicates = <<>> THEN Constant(1, "Boolean")
    ELSE IF Len(predicates) = 1 THEN predicates[1]
    ELSE CompiledFunctionCall("and", <<predicates[1], combine_predicates(Tail(predicates))>>)

RECURSIVE ColumnDeps(_)
\* The offsets of the columns an expression refers to.
ColumnDeps(expr) ==
    IF expr.kind = "CompiledColumnReference" THEN {expr.i}
    ELSE UNION {ColumnDeps(expr.args[k]) : k \in 1..Len(expr.args)}

\* min_max_column_deps_for_expression: <<>> for None, else <<min, max>>.
min_max_column_deps_for_expression(expr) ==
    LET deps == ColumnDeps(expr)
    IN  IF deps = {} THEN <<>>
        ELSE << CHOOSE i \in deps : \A j \in deps : i <= j,
                CHOOSE i \in deps : \A j \in deps : j <= i >>

RECURSIVE move_column_references(_, _)
\* move_column_references: every column offset moved by delta.
move_column_references(expr, delta) ==
    IF expr.kind = "CompiledColumnReference" THEN CompiledColumnReference(expr.i + delta)
    ELSE [expr EXCEPT !.args = [k \in 1..Len(expr.args) |-> move_column_references(expr.args[k], delta)]]

RECURSIVE inline_expression(_, _)
\* inline_expression: every column reference replaced by the expression the
\* project below computes for that column.
inline_expression(expr, project_exprs) ==
    IF expr.kind = "CompiledColumnReference" THEN project_exprs[expr.i + 1]
    ELSE [expr EXCEPT !.args = [k \in 1..Len(expr.args) |-> inline_expression(expr.args[k], project_exprs)]]

----------------------------------------------------------------------------
(* Logical plans and predicate pushdown *)

\* LogicalOperator::Filter
Filter(predicate, source) == [op |-> "Filter", source |-> source, predicate |-> predicate]

RECURSIVE fieldnames_for_operator(_)
\* fieldnames_for_operator(..).count(): the number of columns of an operator.
fieldnames_for_operator(operator) ==
    CASE operator.op \in {"Project", "GroupBy"} -> Len(operator.expressions)
      [] operator.op \in {"Filter", "Limit", "Sort", "NegateFreq", "TableAlias"} ->
            fieldnames_for_operator(operator.source)
      [] operator.op = "UnionAll" -> fieldnames_for_operator(operator.sources[1])
      [] operator.op = "ResolvedTable" -> operator.columns
      [] operator.op = "Join" ->
            fieldnames_for_operator(operator.left) + fieldnames_for_operator(operator.right)
      [] OTHER -> 0

\* A predicate with no column reference.
IsConstant(predicate) == min_max_column_deps_for_expression(predicate) = <<>>

\* max < left_len with the bound included.
PushesLeft_Inclusive(predicate, left_len) == ~IsConstant(predicate) /\ min_max_column_deps_for_expression(predicate)[2] <= left_len

\* Some((_min, max)) if max < left_len
PushesLeft(predicate, left_len) == ~IsConstant(predicate) /\ min_max_column_deps_for_expression(predicate)[2] < left_len

\* Some((min, _max)) if min >= left_len
PushesRight(predicate, left_len) == ~IsConstant(predicate) /\ min_max_column_deps_for_expression(predicate)[1] >= left_len

\* The Join arm treating a left outer join as an inner join.
JoinPartition_OuterAsInner(join_type, predicates, join_predicates, left_len) ==
    LET all == predicates \o join_predicates
    IN  [left |-> SelectSeq(all, LAMBDA p : IsConstant(p) \/ PushesLeft(p, left_len)),
         right |-> SelectSeq(all, LAMBDA p : IsConstant(p) \/ PushesRight(p, left_len)),
         keep |-> SelectSeq(all, LAMBDA p : ~IsConstant(p) /\ ~PushesLeft(p, left_len) /\ ~PushesRight(p, left_len)),
         wrap |-> <<>>]

\* The Join arm of pushdown_predicates_from_above: what is pushed into the
\* left and into the right input, what is kept as the join condition and
\* what is put in a filter wrapping the join.
JoinPartition(join_type, predicates, join_predicates, left_len) ==
    IF join_type = "Inner"
    THEN LET all == predicates \o join_predicates
         IN  [left |-> SelectSeq(all, LAMBDA p : IsConstant(p) \/ PushesLeft(p, left_len)),
              right |-> SelectSeq(all, LAMBDA p : IsConstant(p) \/ PushesRight(p, left_len)),
              keep |-> SelectSeq(all, LAMBDA p : ~IsConstant(p) /\ ~PushesLeft(p, left_len) /\ ~PushesRight(p, left_len)),
              wrap |-> <<>>]
    ELSE IF join_type = "LeftOuter"
    THEN [left |-> SelectSeq(predicates, LAMBDA p : IsConstant(p) \/ PushesLeft(p, left_len)),
          right |-> SelectSeq(predicates, IsConstant)
                        \o SelectSeq(join_predicates, LAMBDA p : IsConstant(p) \/ PushesRight(p, left_len)),
          keep |-> SelectSeq(join_predicates, LAMBDA p : ~IsConstant(p) /\ ~PushesRight(p, left_len)),
          wrap |-> SelectSeq(predicates, LAMBDA p : ~IsConstant(p) /\ ~PushesLeft(p, left_len))]
    ELSE [left |-> <<>>, right |-> <<>>, keep |-> join_predicates, wrap |-> predicates]

RECURSIVE pushdown_predicates_from_above(_, _)
\* pushdown_predicates_from_above: the operator after the predicates from
\* above and its own were pushed as far down as they go. The Filter arm
\* binds `predicates` anew to the conjuncts of its own predicate.
pushdown_predicates_from_above(operator, predicates) ==
    CASE operator.op = "Filter" ->
            pushdown_predicates_from_above(operator.source, decompose_predicate(operator.predicate))
      [] operator.op \in {"Sort", "NegateFreq"} ->
            [operator EXCEPT !.source = pushdown_predicates_from_above(operator.source, predicates)]
      [] operator.op = "Project" ->
            [operator EXCEPT !.source = pushdown_predicates_from_above(operator.source,
                [k \in 1..Len(predicates) |-> inline_expression(predicates[k], operator.expressions)])]
      [] operator.op = "UnionAll" ->
            [operator EXCEPT !.sources = [k \in 1..Len(operator.sources) |->
                                              pushdown_predicates_from_above(operator.sources[k], predicates)]]
      [] operator.op = "Join" ->
            LET left_len == fieldnames_for_operator(operator.left)
                part == JoinPartition(operator.join_type, predicates, decompose_predicate(operator.on), left_len)
                right == [k \in 1..Len(part.right) |-> move_column_references(part.right[k], 0 - left_len)]
                join == [operator EXCEPT !.on = combine_predicates(part.keep),
                                         !.left = pushdown_predicates_from_above(operator.left, part.left),
                                         !.right = pushdown_predicates_from_above(operator.right, right)]
            IN  IF part.wrap # <<>> THEN Filter(combine_predicates(part.wrap), join) ELSE join
      [] OTHER ->
            LET below == IF operator.op \in {"Limit", "GroupBy", "TableAlias"}
                         THEN [operator EXCEPT !.source = pushdown_predicates_from_above(operator.source, <<>>)]
                         ELSE operator
            IN  IF predicates # <<>> THEN Filter(combine_predicates(predicates), below) ELSE below

\* predicate_pushdown
predicate_pushdown(operator) == pushdown_predicates_from_above(operator, <<>>)

----------------------------------------------------------------------------
(* The point-in-time plan of a logical plan *)

\* Any top-level `=` call, whatever its two sides are.
IsEquiKey_AnyEquality(expr) == expr.kind = "CompiledFunctionCall" /\ expr.f = "="

\* A top-level `=` call with a plain column reference on both sides.
IsEquiKey(expr) ==
    /\ expr.kind = "CompiledFunctionCall"
    /\ expr.f = "="
    /\ expr.args[1].kind = "CompiledColumnReference"
    /\ expr.args[2].kind = "CompiledColumnReference"

RECURSIVE build_operator(_)
\* build_operator: the one-to-one lowering of a logical operator.
build_operator(operator) ==
    CASE operator.op = "Single" -> [op |-> "Single"]
      [] operator.op \in {"Project", "Filter", "Limit", "Sort"} ->
            [operator EXCEPT !.source = build_operator(operator.source)]
      [] operator.op = "NegateFreq" -> [operator EXCEPT !.source = build_operator(operator.source)]
      [] operator.op = "TableAlias" -> build_operator(operator.source)
      [] operator.op = "GroupBy" ->
            IF operator.key_expressions = <<>>
            THEN [op |-> "SortedGroup", source |-> build_operator(operator.source),
                  expressions |-> operator.expressions, key_len |-> 0]
            ELSE LET key_len == Len(operator.key_expressions)
                 IN  [op |-> "HashGroup",
                      source |-> [op |-> "Project",
                                  source |-> build_operator(operator.source),
                                  expressions |-> operator.key_expressions
                                      \o [k \in 1..fieldnames_for_operator(operator.source) |-> CompiledColumnReference(k - 1)]],
                      expressions |-> [k \in 1..Len(operator.expressions) |->
                                          move_column_references(operator.expressions[k], key_len)],
                      key_len |-> key_len]
      [] operator.op = "UnionAll" ->
            [operator EXCEPT !.sources = [k \in 1..Len(operator.sources) |-> build_operator(operator.sources[k])]]
      [] operator.op = "ResolvedTable" ->
            [table |-> operator.table, op |-> "TableScan", timestamp |-> ScanTimestamp]
      [] operator.op = "Join" ->
            LET conjuncts == decompose_predicate(operator.on)
            IN  [op |-> "HashJoin",
                 left |-> build_operator(operator.left),
                 right |-> build_operator(operator.right),
                 join_type |-> operator.join_type,
                 key_len |-> Len(SelectSeq(conjuncts, IsEquiKey)),
                 non_equi_condition |-> combine_predicates(SelectSeq(conjuncts, LAMBDA e : ~IsEquiKey(e)))]

----------------------------------------------------------------------------
(* The rows of a logical plan *)

\* The rows of the tables l(a, b) and r(c, d) that plans are run on.
TableRows(name) ==
    IF name = "l"
    THEN << [freq |-> 1, row |-> <<Datum("Integer", <<1>>), Datum("Integer", <<1>>)>>],
            [freq |-> 2, row |-> <<Datum("Integer", <<1>>), Datum("Integer", <<2>>)>>],
            [freq |-> 1, row |-> <<Datum("Integer", <<2>>), Datum("Null", <<>>)>>] >>
    ELSE << [freq |-> 1, row |-> <<Datum("Integer", <<1>>), Datum("Integer", <<1>>)>>],
            [freq |-> 1, row |-> <<Datum("Integer", <<2>>), Datum("Integer", <<1>>)>>],
            [freq |-> 1, row |-> <<Datum("Integer", <<3>>), Datum("Integer", <<2>>)>>] >>

\* A predicate passes a row when it is the Boolean true.
FilterPasses(predicate, row) == eval_scalar(predicate, row) = Datum("Boolean", <<1>>)

RECURSIVE SortRowsBy(_, _, _)
\* Sort: stable, by the sort expression, in its order.
SortRowsBy(rows, expr, ordering) ==
    IF rows = <<>> THEN <<>>
    ELSE LET key(k) == eval_scalar(expr, rows[k].row)
             before == IF is_asc(ordering) THEN "Less" ELSE "Greater"
             i == CHOOSE i \in 1..Len(rows) :
                     \A j \in 1..Len(rows) :
                         /\ cmp(key(j), key(i)) # before
                         /\ (cmp(key(j), key(i)) = "Equal" => i <= j)
         IN  <<rows[i]>> \o SortRowsBy(SubSeq(rows, 1, i - 1) \o SubSeq(rows, i + 1, Len(rows)),
                                       expr, ordering)

RECURSIVE GroupCounts(_, _, _)
\* GroupBy with count: one row of the key values and their count per key.
GroupCounts(rows, key_expressions, groups) ==
    IF rows = <<>> THEN groups
    ELSE LET key == eval_scalar_row(key_expressions, Head(rows).row)
             n == Len(key_expressions)
         IN  IF \E g \in 1..Len(groups) : SubSeq(groups[g].row, 1, n) = key
             THEN GroupCounts(Tail(rows), key_expressions,
                      [g \in 1..Len(groups) |->
                          IF SubSeq(groups[g].row, 1, n) = key
                          THEN [groups[g] EXCEPT !.row[n + 1].v[1] = @ + Head(rows).freq]
                          ELSE groups[g]])
             ELSE GroupCounts(Tail(rows), key_expressions,
                      Append(groups, [freq |-> 1,
                                      row |-> Append(key, Datum("Integer", <<Head(rows).freq>>))]))

RECURSIVE JoinRows(_, _, _, _, _)
\* Join: each left row with the right rows that pass the condition, the
\* frequencies multiplied; a left outer join pads a left row that has no
\* match with nulls.
JoinRows(left, right, on, join_type, right_len) ==
    IF left = <<>> THEN <<>>
    ELSE LET l == Head(left)
             matches == SelectSeq(right, LAMBDA r : FilterPasses(on, l.row \o r.row))
         IN  (IF matches = <<>> /\ join_type = "LeftOuter"
              THEN << [freq |-> l.freq, row |-> l.row \o [k \in 1..right_len |-> Datum("Null", <<>>)]] >>
              ELSE [k \in 1..Len(matches) |->
                       [freq |-> l.freq * matches[k].freq, row |-> l.row \o matches[k].row]])
                 \o JoinRows(Tail(left), right, on, join_type, right_len)

RECURSIVE Run(_)
RECURSIVE RunAll(_)
\* The (row, freq) pairs a logical plan yields, in order.
Run(operator) ==
    CASE operator.op = "ResolvedTable" -> TableRows(operator.table)
      [] operator.op = "TableAlias" -> Run(operator.source)
      [] operator.op = "Filter" ->
            SelectSeq(Run(operator.source), LAMBDA r : FilterPasses(operator.predicate, r.row))
      [] operator.op = "Project" ->
            LET rows == Run(operator.source)
            IN  [k \in 1..Len(rows) |->
                    [freq |-> rows[k].freq, row |-> eval_scalar_row(operator.expressions, rows[k].row)]]
      [] operator.op = "Sort" -> SortRowsBy(Run(operator.source), operator.sort_expression, operator.ordering)
      [] operator.op = "NegateFreq" ->
            LET rows == Run(operator.source)
            IN  [k \in 1..Len(rows) |-> [rows[k] EXCEPT !.freq = 0 - @]]
      [] operator.op = "UnionAll" -> RunAll(operator.sources)
      [] operator.op = "Limit" -> LimitRows(Run(operator.source), operator.offset, operator.limit)
      [] operator.op = "GroupBy" -> GroupCounts(Run(operator.source), operator.key_expressions, <<>>)
      [] operator.op = "Join" ->
            JoinRows(Run(operator.left), Run(operator.right), operator.on, operator.join_type,
                     fieldnames_for_operator(operator.right))

\* UnionAll: its sources one after the other.
RunAll(sources) == IF sources = <<>> THEN <<>> ELSE Run(Head(sources)) \o RunAll(Tail(sources))

----------------------------------------------------------------------------
(* Planning a statement for a point in time *)

Col(offset) == CompiledColumnReference(offset)

Eq(a, b) == CompiledFunctionCall("=", <<a, b>>)

Ne(a, b) == CompiledFunctionCall("!=", <<a, b>>)

And(a, b) == CompiledFunctionCall("and", <<a, b>>)

\* column = value and column != value, of Integer columns
ColumnIs(offset, value) == Eq(Col(offset), Constant(value, "Integer"))

ColumnIsNot(offset, value) == Ne(Col(offset), Constant(value, "Integer"))

\* The boolean constant FALSE and the boolean constant TRUE
Boolean(b) == Constant(b, "Boolean")

\* The ON conditions of the joins planned, over the columns 0, 1 of l(a, b)
\* and 2, 3 of r(c, d): about both sides, about one side, constant.
JoinCondition(k) ==
    CASE k = 1 -> Eq(Col(0), Col(2))
      [] k = 2 -> Eq(Col(0), Col(1))
      [] k = 3 -> ColumnIsNot(2, 1)
      [] k = 4 -> Boolean(0)
      [] k = 5 -> Boolean(1)
      [] k = 6 -> And(Eq(Col(0), Col(2)), Ne(Col(1), Col(3)))
      [] k = 7 -> And(Eq(Col(0), Col(2)), ColumnIs(0, 1))
      [] k = 8 -> And(Eq(Col(0), Col(2)), ColumnIsNot(2, 1))
      [] k = 9 -> And(Eq(Col(0), Col(1)), Eq(Col(0), Col(2)))
      [] k = 10 -> And(And(Eq(Col(0), Col(2)), Eq(Col(1), Col(3))), ColumnIsNot(2, 1))

\* The WHERE clauses put above a join.
WhereClause(k) ==
    CASE k = 1 -> ColumnIs(0, 1)
      [] k = 2 -> Eq(Col(0), Col(1))
      [] k = 3 -> ColumnIsNot(2, 1)
      [] k = 4 -> Ne(Col(1), Col(3))
      [] k = 5 -> Eq(Col(0), Col(2))
      [] k = 6 -> Boolean(0)
      [] k = 7 -> And(ColumnIs(0, 1), ColumnIsNot(2, 1))
      [] k = 8 -> And(ColumnIs(0, 1), Ne(Col(1), Col(3)))
      [] k = 9 -> And(Boolean(0), ColumnIsNot(2, 1))

JoinTypes == {"Inner", "LeftOuter"}

\* The numbers of the conditions, clauses and statements above.
JoinConditions == 1..10

WhereClauses == 1..9

PlannedQueries == 1..11

\* A table of two columns as the validator leaves it: an alias over the
\* resolved table.
Table(name) ==
    [op |-> "TableAlias",
     source |-> [columns |-> 2, table |-> name, op |-> "ResolvedTable"],
     alias |-> name]

\* LogicalOperator::Join
Join(join_type, on, left, right) ==
    [op |-> "Join", left |-> left, right |-> right, join_type |-> join_type, on |-> on]

\* LogicalOperator::Project
Project(expressions, source) == [op |-> "Project", source |-> source, expressions |-> expressions]

\* The sub-query SELECT a, b FROM name WHERE b != 1, without an alias.
SubQuery(name) == Project(<<Col(0), Col(1)>>, Filter(ColumnIsNot(1, 1), Table(name)))

\* Statements over one operator of each kind, with a WHERE clause above it.
PlannedQuery(k) ==
    CASE k = 1 -> \* SELECT a FROM (SELECT a, b FROM l WHERE b != 1) WHERE a = 2
                  Project(<<Col(0)>>, Filter(ColumnIs(0, 2), SubQuery("l")))
      [] k = 2 -> \* the same with the sub-query under an alias
                  Project(<<Col(0)>>, Filter(ColumnIs(0, 2),
                                             [op |-> "TableAlias", source |-> SubQuery("l"), alias |-> "x"]))
      [] k = 3 -> \* the sub-query joined with r, one ON conjunct about the sub-query alone
                  Join("Inner", And(Eq(Col(0), Col(2)), ColumnIs(0, 2)), SubQuery("l"), Table("r"))
      [] k = 4 -> Join("LeftOuter", Eq(Col(0), Col(2)), Table("l"), SubQuery("r"))
      [] k = 5 -> Filter(ColumnIs(0, 1), [op |-> "Sort", source |-> Table("l"), ordering |-> "Desc",
                                          sort_expression |-> Col(1)])
      [] k = 6 -> Filter(ColumnIs(0, 1), [op |-> "NegateFreq", source |-> Table("l")])
      [] k = 7 -> Filter(ColumnIs(0, 1), [op |-> "UnionAll", sources |-> <<Table("l"), Table("r")>>])
      [] k = 8 -> Filter(ColumnIs(0, 2), [op |-> "Limit", source |-> Table("l"), offset |-> 0, limit |-> 2])
      [] k = 9 -> Filter(ColumnIs(1, 1),
                         [op |-> "GroupBy", source |-> Table("l"),
                          expressions |-> <<Col(0), CompiledFunctionCall("count", <<>>)>>,
                          key_expressions |-> <<Col(0)>>])
      [] k = 10 -> Filter(ColumnIs(0, 1), Project(<<Col(1), Col(0)>>, Table("l")))
      [] k = 11 -> Filter(Eq(Col(0), Col(1)), Table("l"))

\* plan_for_point_in_time: the validated plan, the plan after the optimizer's
\* predicate pushdown and the point-in-time operator built from it.
plan_for_point_in_time(logical) ==
    /\ query' = [pc |-> "planned",
                 operator |-> build_operator(predicate_pushdown(logical)),
                 logical |-> logical,
                 optimized |-> predicate_pushdown(logical)]
    /\ UNCHANGED <<catalogVars, runtimeVars, plannerVars, codec, project>>

\* SELECT * FROM l JOIN r ON on
PlanJoin(join_type, on) == plan_for_point_in_time(Join(join_type, on, Table("l"), Table("r")))

\* SELECT * FROM l JOIN r ON on WHERE above
PlanFilteredJoin(join_type, on, above) ==
    plan_for_point_in_time(Filter(above, Join(join_type, on, Table("l"), Table("r"))))

\* One of the other statements.
PlanQuery(k) == plan_for_point_in_time(PlannedQuery(k))

NextOptimizer ==
    \/ \E join_type \in JoinTypes, on \in JoinConditions : PlanJoin(join_type, JoinCondition(on))
    \/ \E join_type \in JoinTypes, on \in JoinConditions, above \in WhereClauses :
           PlanFilteredJoin(join_type, JoinCondition(on), WhereClause(above))
    \/ \E k \in PlannedQueries : PlanQuery(k)

SpecOptimizer == Init /\ [][NextOptimizer]_vars

----------------------------------------------------------------------------
(* The Project executor *)

\* The calls made to an executor after its source ran out.
MaxCallsAfterEnd == 2

\* The executor a Project is built over: Single's one empty row of frequency
\* 1, or up to MaxRows rows of one column.
SingleSource == << [freq |-> 1, row |-> <<>>] >>

SourceTuples ==
    [freq : {1, 2}, row : {<<Datum("Integer", <<1>>)>>, <<Datum("Integer", <<2>>)>>}]

ScanSources == UNION {[1..n -> SourceTuples] : n \in 0..MaxRows}

\* The expressions of a Project over Single, and over rows of one column.
LiteralExpressions(k) ==
    CASE k = 1 -> <<Constant(1, "Integer")>>
      [] k = 2 -> <<Constant(1, "Integer"), Constant(2, "Integer")>>

ColumnExpressions(k) ==
    CASE k = 1 -> <<Col(0)>>
      [] k = 2 -> <<ColumnIsNot(0, 1), Col(0)>>

\* ProjectExecutor::new, with the position of its source: 0 before its first
\* row, Len(source) + 1 after its last.
ProjectExecutor(source, expressions) ==
    [columns |-> 0 - 1, pc |-> "built", source |-> source, pos |-> 0, emitted |-> <<>>,
     expressions |-> expressions,
     tuple_buffer |-> [k \in 1..Len(expressions) |-> Datum("Null", <<>>)],
     calls |-> 0, got_called |-> FALSE, got |-> <<>>]

\* source.get(): the row the source is at, none before the first and after
\* the last.
SourceGet(p) == IF p.pos \in 1..Len(p.source) THEN <<p.source[p.pos]>> ELSE <<>>

\* advance: the source's next row, if there is one, evaluated into the tuple
\* buffer.
advance(p) ==
    LET pos == IF p.pos <= Len(p.source) THEN p.pos + 1 ELSE p.pos
    IN  [p EXCEPT !.pos = pos,
                  !.tuple_buffer = IF pos <= Len(p.source)
                                   THEN eval_scalar_row(p.expressions, p.source[pos].row)
                                   ELSE p.tuple_buffer]

\* get that replays the tuple buffer whatever the source is at.
get_ReplayBuffer(p) == << [freq |-> IF SourceGet(p) = <<>> THEN 1 ELSE SourceGet(p)[1].freq, row |-> p.tuple_buffer] >>

\* get: the tuple buffer with the frequency of the source's row, none if the
\* source has none.
get(p) == IF SourceGet(p) = <<>> THEN <<>> ELSE << [freq |-> SourceGet(p)[1].freq, row |-> p.tuple_buffer] >>

\* column_count
column_count(p) == Len(p.expressions)

\* build_executor for a Project over Single or over a scan.
BuildProject(source, expressions) ==
    /\ project.pc = "idle"
    /\ project' = ProjectExecutor(source, expressions)
    /\ UNCHANGED <<catalogVars, runtimeVars, plannerVars, codec, query>>

\* The consumer's next(): advance, then get.
ProjectNext ==
    /\ project.pc = "built"
    /\ project.calls < Len(project.source) + MaxCallsAfterEnd
    /\ LET p == advance(project)
       IN  project' = [p EXCEPT !.calls = p.calls + 1, !.got_called = TRUE, !.got = get(p),
                                !.emitted = p.emitted \o get(p)]
    /\ UNCHANGED <<catalogVars, runtimeVars, plannerVars, codec, query>>

\* The consumer's get().
ProjectGet ==
    /\ project.pc = "built"
    /\ project' = [project EXCEPT !.got_called = TRUE, !.got = get(project)]
    /\ UNCHANGED <<catalogVars, runtimeVars, plannerVars, codec, query>>

\* The consumer's column_count().
ProjectColumnCount ==
    /\ project.pc = "built"
    /\ project' = [project EXCEPT !.columns = column_count(project)]
    /\ UNCHANGED <<catalogVars, runtimeVars, plannerVars, codec, query>>

NextProject ==
    \/ \E k \in 1..2 : BuildProject(SingleSource, LiteralExpressions(k))
    \/ \E source \in ScanSources, k \in 1..2 : BuildProject(source, ColumnExpressions(k))
    \/ ProjectNext
    \/ ProjectGet
    \/ ProjectColumnCount

SpecProject == Init /\ [][NextProject]_vars

----------------------------------------------------------------------------
(* What a reader of the catalog sees at the latest timestamp *)

SeqRange(seq) == {seq[i] : i \in 1..Len(seq)}

\* The names a full scan of the databases table returns.
VisibleDatabases(s) ==
    {r.row[1] : r \in SeqRange(full_scan(s, databases_table, LogicalTimestampMAX))}

\* The rows a full scan of the tables table returns.
VisibleTables(s) == SeqRange(full_scan(s, tables_table, LogicalTimestampMAX))

\* The rows a full scan of the prefix_metadata table returns.
VisiblePrefixes(s) ==
    SeqRange(full_scan(s, prefix_metadata_table, LogicalTimestampMAX))

Called(r, op, args) == r.op = op /\ r.args = args

----------------------------------------------------------------------------
(* C1: the database "default" is visible in the databases table at the     *)
(* latest timestamp after bootstrap and any sequence of create_database,   *)
(* drop_database and create_table calls; drop_database("default") never    *)
(* removes it.                                                             *)
C1_DefaultAlwaysVisible == "default" \in VisibleDatabases(store)

(* C2: a database name is visible in a scan of the databases table at the  *)
(* latest timestamp exactly when the last successful call on it was        *)
(* create_database (bootstrap creates "default"): a successful create makes*)
(* it visible, a successful drop makes it invisible, no other call changes *)
(* its visibility, and an invisible name can be created (again).           *)
C2_VisibleIffLastCreated ==
    /\ VisibleDatabases(store) = {"default"}
    /\ [][LET before == VisibleDatabases(store)
              after == IF store' = store THEN before ELSE VisibleDatabases(store')
              call == result'
          IN  IF call.op = "create_database"
              THEN /\ call.args[1] \notin before => call.res = "Ok"
                   /\ call.res = "Ok" => call.args[1] \in after
                   /\ after \ {call.args[1]} = before \ {call.args[1]}
                   /\ call.res # "Ok" => after = before
              ELSE IF call.op = "drop_database"
              THEN /\ call.res = "Ok" => call.args[1] \notin after
                   /\ after \ {call.args[1]} = before \ {call.args[1]}
                   /\ call.res # "Ok" => after = before
              ELSE after = before]_vars

\* abc was created, dropped and created again.
C2_Witness ==
    /\ result = Result("create_database", <<"abc">>, "Ok")
    /\ \E v \in Rows(store, DATABASES_TABLE_ID) : v.pk = <<"abc">> /\ v.freq = 0
    /\ "abc" \in VisibleDatabases(store)

(* C3: create_database(name) fails with DatabaseAlreadyExists exactly when *)
(* name is visible in the databases table, and then writes nothing;        *)
(* otherwise it succeeds and name becomes visible with frequency 1.        *)
C3_CreateDatabase ==
    [][result'.op = "create_database" =>
        LET n == result'.args[1] IN
            IF n \in VisibleDatabases(store)
            THEN result'.res = "DatabaseAlreadyExists" /\ store' = store
            ELSE /\ result'.res = "Ok"
                 /\ \E r \in SeqRange(full_scan(store', databases_table,
                                                LogicalTimestampMAX)) :
                        r.row = <<n>> /\ r.freq = 1]_vars

\* A second create_database("abc") was refused.
C3_Witness ==
    /\ result = Result("create_database", <<"abc">>, "DatabaseAlreadyExists")
    /\ "abc" \in VisibleDatabases(store)

\* Some visible row of the tables table names database n.
HasTables(s, n) == \E r \in VisibleTables(s) : r.row[1] = n

(* C4: drop_database(name) fails with DatabaseNotFound when name is not    *)
(* visible (also when tables rows name it: existence is checked first) and *)
(* with DatabaseNotEmpty when name is visible and a visible row of the     *)
(* tables table names it; a failing call writes nothing.                   *)
C4_DropDatabaseFailures ==
    [][result'.op = "drop_database" =>
        LET n == result'.args[1] IN
            /\ n \notin VisibleDatabases(store)
                  => result'.res = "DatabaseNotFound" /\ store' = store
            /\ (n \in VisibleDatabases(store) /\ HasTables(store, n))
                  => result'.res = "DatabaseNotEmpty" /\ store' = store
            /\ result'.res # "Ok" => store' = store]_vars

\* drop_database("abc") was refused because abc holds a table.
C4_Witness ==
    /\ result = Result("drop_database", <<"abc">>, "DatabaseNotEmpty")
    /\ "abc" \in VisibleDatabases(store)
    /\ HasTables(store, "abc")

TableVisible(s, database, name) ==
    \E r \in VisibleTables(s) : r.row[1] = database /\ r.row[2] = name

(* C5: create_table(db, name, columns) fails with DatabaseNotFound when db *)
(* is not visible (checked first, also when the table exists) and with     *)
(* TableAlreadyExists when db is visible and (db, name) is visible in the  *)
(* tables table; a failing call writes no row to the tables table nor to   *)
(* the prefix_metadata table.                                              *)
C5_CreateTableFailures ==
    [][result'.op = "create_table" =>
        LET database == result'.args[1]
            name == result'.args[2]
        IN  /\ database \notin VisibleDatabases(store)
                  => result'.res = "DatabaseNotFound"
            /\ (database \in VisibleDatabases(store)
                    /\ TableVisible(store, database, name))
                  => result'.res = "TableAlreadyExists"
            /\ result'.res # "Ok"
                  => /\ Rows(store', TABLES_TABLE_ID) = Rows(store, TABLES_TABLE_ID)
                     /\ Rows(store', PREFIX_METADATA_TABLE_ID)
                            = Rows(store, PREFIX_METADATA_TABLE_ID)]_vars

\* A second create_table("abc", "test", ..) was refused.
C5_Witness ==
    /\ result.op = "create_table"
    /\ result.res = "TableAlreadyExists"
    /\ TableVisible(store, "abc", "test")

\* The rows of the tables table that create_table wrote (system = false).
CreatedTables(s) == {r \in VisibleTables(s) : ~r.row[5]}

(* C6: every table id recorded in the catalog (tables rows and             *)
(* prefix_metadata rows) is even, no two tables share an id, and no table  *)
(* created by create_table has one of the reserved ids 0, 2, 4.            *)
C6_TableIds ==
    /\ \A r \in VisibleTables(store) : r.row[3] % 2 = 0
    /\ \A r \in VisiblePrefixes(store) : r.row[1] % 2 = 0
    /\ \A r1, r2 \in VisibleTables(store) : r1.row[3] = r2.row[3] => r1 = r2
    /\ \A r \in CreatedTables(store) :
          r.row[3] \notin {PREFIX_METADATA_TABLE_ID, DATABASES_TABLE_ID,
                           TABLES_TABLE_ID}

\* Two tables of the same name (same hash) were created in two databases.
C6_Witness ==
    \E r1, r2 \in CreatedTables(store) : r1.row[2] = r2.row[2] /\ r1.row[1] # r2.row[1]

(* C8: after create_table(db, name, columns) succeeds, table(db, name)     *)
(* returns a handle with the declared columns (names and types, in order), *)
(* the id assigned at creation and one ascending sort order per column,    *)
(* and keeps returning it after later calls; for a (db, name) that was     *)
(* never created table() fails with TableNotFound.                         *)
C8_TableHandle ==
    /\ \A t \in UserDatabases \X UserTables :
          table(store, t[1], t[2]).res = "TableNotFound"
    /\ [][LET created == result'.op = "create_table" /\ result'.res = "Ok"
              args == result'.args
          IN  /\ created =>
                  LET after == table(store', args[1], args[2]) IN
                      /\ table(store, args[1], args[2]).res = "TableNotFound"
                      /\ after.res = "Ok"
                      /\ after.table.columns = args[3]
                      /\ after.table.pk = [i \in 1..Len(args[3]) |-> "Asc"]
                      /\ after.table.id =
                            generate_table_id(store, HashOfName(args[2]), FALSE).id
              \* a step that leaves the store alone leaves table() alone
              /\ store' # store =>
                  \A t \in UserDatabases \X UserTables :
                      (created /\ args[1] = t[1] /\ args[2] = t[2])
                          \/ table(store', t[1], t[2]) = table(store, t[1], t[2])]_vars

\* A two-column table was created and its handle read back.
C8_Witness ==
    /\ result.op = "create_table" /\ result.res = "Ok"
    /\ Len(result.args[3]) = 2
    /\ table(store, result.args[1], result.args[2]).table.columns = result.args[3]

(* C7: create_table commits the tables row and the prefix_metadata row in *)
(* one atomic batch: in every state a reader can observe, each tables row  *)
(* has the prefix_metadata row of its id (with the matching column count)  *)
(* and each prefix_metadata row has its tables row, so Catalog::table never*)
(* unwraps an absent prefix_metadata lookup.                               *)
C7_TablesAndPrefixTogether ==
    /\ \A r \in VisibleTables(store) :
          \E q \in VisiblePrefixes(store) :
              q.row[1] = r.row[3] /\ q.row[2] = Len(r.row[4])
    /\ \A q \in VisiblePrefixes(store) :
          \E r \in VisibleTables(store) : r.row[3] = q.row[1]
    /\ result.op = "table" => result.res # "Panic"

\* Catalog::table returned the handle of (abc, test) with two created tables
\* in the catalog.
C7_Witness ==
    /\ Called(result, "table", <<"abc", "test">>) /\ result.res = "Ok"
    /\ Cardinality(CreatedTables(store)) = 2

ScanTimes == 0..MaxTime \cup {LogicalTimestampMAX}

\* The handles of the tables in the store.
StoredTables(s) ==
    {prefix_metadata_table, databases_table, tables_table}
        \cup {table(s, r.row[1], r.row[2]).table : r \in CreatedTables(s)}

\* The store without the versions newer than at_ts.
UpTo(s, at_ts) == [id \in DOMAIN s |-> {v \in s[id] : v.ts <= at_ts}]

\* The newest version with ts <= at_ts of each pk, where its frequency is not 0.
VisibleAt(s, t, at_ts) ==
    {[row |-> v.pk \o v.val, freq |-> v.freq] :
        v \in {v \in Rows(s, t.id) :
                  /\ v.ts <= at_ts
                  /\ v.freq # 0
                  /\ \A w \in Rows(s, t.id) :
                        (w.pk = v.pk /\ w.ts <= at_ts) => w.ts <= v.ts}}

(* C9: a scan at at_ts yields for each primary key at most one row, the    *)
(* newest stored version with ts <= at_ts, and nothing for a key whose     *)
(* newest such version has frequency 0; versions with ts > at_ts do not    *)
(* change the result.                                                      *)
C9_ScanVisibility ==
    \A t \in StoredTables(store), at_ts \in ScanTimes :
        LET scan == full_scan(store, t, at_ts)
        IN  /\ SeqRange(scan) = VisibleAt(store, t, at_ts)
            /\ \A i, j \in 1..Len(scan) :
                  Prefix(scan[i].row, Len(t.pk)) = Prefix(scan[j].row, Len(t.pk))
                      => i = j
            /\ scan = full_scan(UpTo(store, at_ts), t, at_ts)

\* A row was inserted at 0 and retracted at 1: its newest version has
\* frequency 0 and an older one does not.
C9_Witness ==
    \E v, w \in Rows(store, UserTable.id) :
        v.pk = w.pk /\ v.ts < w.ts /\ v.freq # 0 /\ w.freq = 0

\* The rows a scan of the databases table at at_ts yields for name n.
DatabaseRowsAt(s, n, at_ts) ==
    {r \in SeqRange(full_scan(s, databases_table, at_ts)) : r.row = <<n>>}

(* C10: insert/retract round trip on the databases table. Writing a name   *)
(* that is not visible with freq 1 at ts (create_database) and scanning at *)
(* ts yields exactly one (name, 1); writing (name, -1) at ts + 1           *)
(* (drop_database) and scanning at ts + 1 yields no row for the name,      *)
(* while a scan at ts still yields (name, 1).                              *)
C10_InsertRetractRoundTrip ==
    [][LET n == result'.args[1] IN
        /\ (result'.op = "create_database" /\ result'.res = "Ok")
              => DatabaseRowsAt(store', n, now) = {[row |-> <<n>>, freq |-> 1]}
        /\ ( /\ result'.op = "drop_database" /\ result'.res = "Ok"
             /\ now >= 1
             /\ \E v \in Rows(store, DATABASES_TABLE_ID) :
                   v.pk = <<n>> /\ v.ts = now - 1 /\ v.freq = 1
             /\ ~\E v \in Rows(store, DATABASES_TABLE_ID) :
                   v.pk = <<n>> /\ v.ts = now )
              => /\ DatabaseRowsAt(store', n, now) = {}
                 /\ DatabaseRowsAt(store', n, now - 1)
                        = {[row |-> <<n>>, freq |-> 1]}]_vars

\* abc was created at 0 and dropped at 1.
C10_Witness ==
    /\ Called(result, "drop_database", <<"abc">>) /\ result.res = "Ok"
    /\ now = 1
    /\ \E v \in Rows(store, DATABASES_TABLE_ID) :
          v.pk = <<"abc">> /\ v.ts = 0 /\ v.freq = 1
    /\ DatabaseRowsAt(store, "abc", 1) = {}

----------------------------------------------------------------------------
(* Writes to one primary key within one millisecond *)

\* The stored versions of a table under the key (pk, ts).
VersionsAt(s, id, pk, ts) == {v \in Rows(s, id) : v.pk = pk /\ v.ts = ts}

RECURSIVE SumFreq(_, _)
\* The sum of the frequencies a source holds for a row.
SumFreq(source, row) ==
    IF source = <<>> THEN 0
    ELSE (IF Head(source).row = row THEN Head(source).freq ELSE 0)
             + SumFreq(Tail(source), row)

\* An insert step that writes pk at a millisecond at which the store already
\* holds a version of pk: the second of two writes stamped alike.
SecondWriteSameMs(pk) ==
    /\ result'.op = "insert"
    /\ SumFreq(result'.args, pk) # 0
    /\ VersionsAt(store, UserTable.id, pk, now) # {}

----------------------------------------------------------------------------
(* One INSERT writing a row several times *)

\* SELECT a, count(*) FROM t GROUP BY a ORDER BY a: the rows it returns.
GroupCount(s, t) == Rendered(Execute(select(GroupCountQuery, 1).op, s, t))

\* The frequency a query at the latest timestamp sees for a row.
SeenFreq(s, t, row) == FreqAt(s, t, row, LogicalTimestampMAX)

(* C12: an INSERT whose source holds a row k times (each with freq 1) adds *)
(* k to the frequency a later query sees for that row; on the empty table  *)
(* INSERT VALUES (1),(2),(2) gives (1,1),(2,2) when grouped and counted.   *)
C12_InsertCountsDuplicates ==
    [][(result'.op = "insert" /\ \A i \in 1..Len(result'.args) : result'.args[i].freq = 1)
          => /\ \A row \in UserRows :
                    SeenFreq(store', UserTable, row)
                        = SeenFreq(store, UserTable, row) + SumFreq(result'.args, row)
             /\ (Rows(store, UserTable.id) = {} /\ Len(result'.args) = 3)
                    => GroupCount(store', UserTable) = << <<1, 1>>, <<2, 2>> >>]_vars

\* INSERT INTO t VALUES (1),(2),(2) ran on the empty table.
C12_Witness ==
    /\ result.op = "insert"
    /\ Len(result.args) = 3
    /\ Rows(store, UserTable.id)
          = {[pk |-> <<1>>, ts |-> now, val |-> <<>>, freq |-> 1],
             [pk |-> <<2>>, ts |-> now, val |-> <<>>, freq |-> 2]}

----------------------------------------------------------------------------
(* ORDER BY after a UNION ALL *)

(* C13: with t holding a = 1, 2, 2 the statement                           *)
(* SELECT a FROM t WHERE a > 1 UNION ALL SELECT a FROM t WHERE a < 2       *)
(* ORDER BY a returns (1),(2),(2): the ORDER BY orders the whole union.    *)
C13_OrderByOrdersUnion ==
    ( /\ result.op = "select"
      /\ result.args = UnionOrderQuery
      /\ SeenFreq(store, UserTable, <<1>>) = 1
      /\ SeenFreq(store, UserTable, <<2>>) = 2 )
        => result.res = << <<1>>, <<2>>, <<2>> >>

----------------------------------------------------------------------------
(* Connections of a runtime *)

\* The ids in the connections map.
MapIds == DOMAIN connections_state.connections

\* The positions in conns of the connections in a given state.
ConnsIn(state) == {i \in 1..Len(conns) : conns[i].state = state}

(* C14: the connections a runtime created have pairwise different ids, also *)
(* when new_connection runs on several threads; the i-th connection to be   *)
(* created (in lock-acquisition order) has id i, and its session carries    *)
(* the id of the connection.                                                *)
C14_ConnectionIds ==
    /\ \A i, j \in 1..Len(conns) :
          i # j => conns[i].connection_id # conns[j].connection_id
    /\ \A i \in 1..Len(conns) :
          /\ conns[i].connection_id = i
          /\ conns[i].session.connection_id = conns[i].connection_id

\* Two connections were created, the second while the other thread was
\* waiting with a call of its own.
C14_Witness ==
    /\ Len(conns) = 2
    /\ conns[2].state = "live"
    /\ \E t \in Threads : threads[t].pc = "drop" /\ threads[t].conn = 1

\* The step of thread t that ends kill_connection.
KillReturns(t) == threads[t].pc = "kill_locked" /\ threads'[t].pc = "idle"

(* C15: kill_connection(id) sets the kill flag of the live connection with  *)
(* that id and changes no other kill flag, no other field of a connection   *)
(* and nothing of the connections map or the counter; for an id never       *)
(* issued, or of a connection already dropped, it changes nothing.          *)
C15_KillConnection ==
    [][\A t \in Threads :
          KillReturns(t) =>
              LET id == threads[t].connection_id IN
              /\ connections_state' = connections_state
              /\ Len(conns') = Len(conns)
              /\ \A i \in 1..Len(conns) :
                    conns'[i] =
                        IF conns[i].connection_id = id /\ conns[i].state = "live"
                        THEN [conns[i] EXCEPT !.session.kill_flag = TRUE]
                        ELSE conns[i]]_vars

\* Connection 1 is live and killed, connection 2 is live and not killed.
C15_Witness ==
    /\ Len(conns) = 2
    /\ ConnsIn("live") = {1, 2}
    /\ conns[1].session.kill_flag
    /\ ~conns[2].session.kill_flag

(* C16: the connections map holds exactly the ids of the connections that   *)
(* were created and whose drop has not finished, each mapped to its         *)
(* connection; once every connection is dropped the map is empty.           *)
C16_MapHoldsLiveConnections ==
    /\ MapIds = {conns[i].connection_id : i \in ConnsIn("live") \cup ConnsIn("dropping")}
    /\ \A id \in MapIds :
          conns[connections_state.connections[id]].connection_id = id
    /\ ConnsIn("dropped") = 1..Len(conns) => MapIds = {}

\* Two connections were created and both were dropped.
C16_Witness ==
    /\ Len(conns) = 2
    /\ ConnsIn("dropped") = {1, 2}
    /\ MapIds = {}

(* C17: a statement during which the kill flag of its session was set at a  *)
(* yield point does not complete normally: it fails with                    *)
(* ExecutionError::Killed.                                                  *)
C17_KilledStatementFails ==
    (exec.pc = "done" /\ exec.kill_seen) => exec.res = "Killed"

----------------------------------------------------------------------------
(* The catalog lock during a statement *)

(* C18: a thread holds the catalog read lock exactly while it is in the     *)
(* table-resolution step of Planner::validate, not in the passes after it   *)
(* nor during execution; so a DDL statement waiting for the write side is   *)
(* held up by readers only while some statement resolves its tables.        *)
C18_ReadLockOnlyWhileResolving ==
    /\ \A q \in Queries :
          q \in catalog_lock.readers <=> planner[q] = "resolve_tables"
    /\ ( /\ planner["ddl"] = "waiting"
         /\ \A q \in Queries : planner[q] # "resolve_tables" )
          => catalog_lock.readers = {}

\* The DDL statement holds the write side while one statement is being
\* executed and another is in a type check.
C18_Witness ==
    /\ planner["ddl"] = "writing"
    /\ planner["q1"] = "execute"
    /\ planner["q2"] = "check_predicates"

----------------------------------------------------------------------------
(* A table insert is all or nothing *)

\* The frequencies every scan from the insert's timestamp on sees.
SeenFrom(s, ts) ==
    [row \in UserRows |->
        [at_ts \in ts..MaxTime \cup {LogicalTimestampMAX} |->
            FreqAt(s, UserTable, row, at_ts)]]

(* C19: the rows of a table insert reach the store in one step. While the   *)
(* source is drained nothing is written; when the statement fails part-way  *)
(* (a storage error of the source or of the commit) the store is left as it *)
(* was, so no scan sees any of its rows; when it succeeds every scan at or  *)
(* after its timestamp sees each source row with its frequency added, and   *)
(* the insert has emitted no row.                                           *)
C19_InsertAllOrNothing ==
    [][insert' # insert =>
          IF insert.pc = "draining" /\ insert'.pc = "idle" /\ result'.res = "Ok"
          THEN /\ \A row \in UserRows :
                     \A at_ts \in insert.ts..MaxTime \cup {LogicalTimestampMAX} :
                         SeenFrom(store', insert.ts)[row][at_ts]
                             = SeenFrom(store, insert.ts)[row][at_ts]
                                   + SumFreq(insert.source, row)
               /\ insert'.emitted = 0
          ELSE store' = store]_vars

\* INSERT VALUES (1),(2),(2) failed after its second row: the table is empty.
C19_Witness ==
    /\ result.op = "insert"
    /\ result.res = "StorageError"
    /\ Len(insert.source) = 3
    /\ insert.pos = 2
    /\ Rows(store, UserTable.id) = {}

----------------------------------------------------------------------------
(* C20: decoding the sortable encoding of a datum written with either sort  *)
(* order returns a datum equal to it (null-safe) and consumes exactly the   *)
(* bytes that were written, so that datums encoded back to back decode one  *)
(* after another: the reader never panics, the k-th datum it decodes equals *)
(* the k-th datum written, and what it has left is the encoding of the      *)
(* datums it has not decoded yet.                                           *)

RECURSIVE EncodingOf(_)
\* The bytes the datums written from an empty buffer leave in it.
EncodingOf(written) == IF written = <<>> THEN <<>> ELSE as_sortable_bytes(written[Len(written)].datum, written[Len(written)].sort_order, EncodingOf(SubSeq(written, 1, Len(written) - 1)))

C20_DecodeEncodeRoundTrip ==
    /\ codec.pc # "panic"
    /\ codec.pc = "read" =>
        /\ Len(codec.decoded) <= Len(codec.written)
        /\ \A k \in 1..Len(codec.decoded) : sql_eq(codec.decoded[k], codec.written[k].datum, TRUE)
        /\ codec.rem = EncodingOf(SubSeq(codec.written, Len(codec.decoded) + 1, Len(codec.written)))

\* Two datums written back to back, the first a byte string that holds 0x00
\* written descending, the second a negative integer written ascending, were
\* both decoded and nothing is left.
C20_Witness ==
    /\ codec.pc = "read"
    /\ Len(codec.written) = 2
    /\ Len(codec.decoded) = 2
    /\ codec.rem = <<>>
    /\ codec.written[1] = [datum |-> Datum("ByteAInline", <<97, 0, 98>>), sort_order |-> "Desc"]
    /\ codec.written[2] = [datum |-> Datum("Integer", <<0 - 10>>), sort_order |-> "Asc"]
    /\ codec.decoded[1].tag = "ByteAOwned"

----------------------------------------------------------------------------
(* C21: for every pair of datums d1, d2 and every sort order o, the         *)
(* encoding of d1 written with o is bytewise less than or equal to that of  *)
(* d2 written with o if and only if compare(d1, d2, o) <= 0, where compare  *)
(* is the order of the datums (Ord::cmp), reversed for descending.          *)

\* compare(d1, d2, o) <= 0.
CompareLeq(d1, d2, sort_order) == IF is_asc(sort_order) THEN cmp(d1, d2) # "Greater" ELSE cmp(d1, d2) # "Less"

\* encode(d1, o) <= encode(d2, o) bytewise.
EncodeLeq(d1, d2, sort_order) == BytesCmp(as_sortable_bytes(d1, sort_order, <<>>), as_sortable_bytes(d2, sort_order, <<>>)) # "Greater"

\* Two datums were written with the same sort order.
PairWritten == Len(codec.written) = 2 /\ codec.written[1].sort_order = codec.written[2].sort_order

C21_EncodingOrderIsCompare ==
    PairWritten =>
        (EncodeLeq(codec.written[1].datum, codec.written[2].datum, codec.written[1].sort_order)
            <=> CompareLeq(codec.written[1].datum, codec.written[2].datum, codec.written[1].sort_order))

\* The same for two datums of one variant, or with Null as one of them: the
\* pairs Ord::cmp is documented to be valid for.
C21_SameVariantOrder ==
    (PairWritten /\ (TagOf(codec.written[1].datum) = TagOf(codec.written[2].datum) \/ codec.written[1].datum.tag = "Null")) =>
        (EncodeLeq(codec.written[1].datum, codec.written[2].datum, codec.written[1].sort_order)
            <=> CompareLeq(codec.written[1].datum, codec.written[2].datum, codec.written[1].sort_order))

----------------------------------------------------------------------------
(* C22: the probe of generate_table_id always ends: create_table returns    *)
(* with an unused even id or fails with an error of the catalog             *)
(* (TableAlreadyExists when the probe gives up); it never panics on an      *)
(* overflow of the id, never probes for ever, and never wraps around to an  *)
(* id below the hash it started from.                                       *)
C22_ProbeEndsWithoutOverflow ==
    /\ result.op = "create_table" =>
          result.res \in {"Ok", "DatabaseNotFound", "TableAlreadyExists"}
    /\ \A r \in CreatedTables(store) :
          r.row[3] >= HashOfName(r.row[2]) - (HashOfName(r.row[2]) % 2)

----------------------------------------------------------------------------
(* C30: after any sequence of create_database, drop_database and            *)
(* create_table calls, every table created by create_table that is visible *)
(* in the tables table names a database that is visible in the databases   *)
(* table: a database that still holds a table is never dropped.            *)
C30_TablesNameVisibleDatabases ==
    \A r \in CreatedTables(store) : r.row[1] \in VisibleDatabases(store)

\* A drop of a database that holds a table was refused, the table and its
\* database are still visible, and another database was dropped meanwhile.
C30_Witness ==
    /\ result.op = "drop_database"
    /\ result.res = "DatabaseNotEmpty"
    /\ \E r \in CreatedTables(store) : r.row[1] = result.args[1]
    /\ result.args[1] \in VisibleDatabases(store)
    /\ \E name \in UserDatabases : name \notin VisibleDatabases(store)

----------------------------------------------------------------------------
(* C27: every table scan of a point-in-time plan reads at                   *)
(* LogicalTimestamp::MAX, so a statement sees every row written by the      *)
(* statements that committed before it started, those stamped with the      *)
(* millisecond of the read included: no write is stamped later than the     *)
(* clock, and the statement that groups t by a and counts returns for each *)
(* row the frequency that all the writes up to now add up to.              *)

\* The rows the grouped count returns when it sees every write up to ts.
CountsAt(s, t, ts) ==
    SelectSeq(<< <<1, FreqAt(s, t, <<1>>, ts)>>, <<2, FreqAt(s, t, <<2>>, ts)>> >>,
              LAMBDA r : r[2] # 0)

C27_ScansSeeCommittedWrites ==
    /\ \A v \in Rows(store, UserTable.id) : v.ts <= now
    /\ (result.op = "select" /\ result.args = GroupCountQuery)
           => result.res = CountsAt(store, UserTable, now)

\* The grouped count ran in the millisecond in which a row was written, after
\* another row was written in an earlier millisecond, and returned both.
C27_Witness ==
    /\ result.op = "select"
    /\ result.args = GroupCountQuery
    /\ Len(result.res) = 2
    /\ \E v, w \in Rows(store, UserTable.id) : v.ts = now /\ w.ts < now

----------------------------------------------------------------------------
(* C28: predicate pushdown preserves the rows of a plan *)

\* Two row sources hold the same multiset of (row, frequency) pairs.
SameRows(a, b) ==
    /\ \A k \in 1..Len(a) : SumFreq(a, a[k].row) = SumFreq(b, a[k].row)
    /\ \A k \in 1..Len(b) : SumFreq(a, b[k].row) = SumFreq(b, b[k].row)

\* C28: the plan after predicate_pushdown returns the same multiset of
\* (row, frequency) pairs as the validated plan before it.
C28_PushdownPreservesRows ==
    query.pc = "planned" => SameRows(Run(query.logical), Run(query.optimized))

----------------------------------------------------------------------------
(* C23: the conjuncts of an inner join go left, right or stay *)

\* The statement planned is a join of l and r of this type, with or without
\* a WHERE clause above it.
PlannedJoinOf(join_type) ==
    /\ query.pc = "planned"
    /\ \/ query.logical.op = "Join" /\ query.logical.join_type = join_type
          /\ query.logical.left = Table("l") /\ query.logical.right = Table("r")
       \/ query.logical.op = "Filter" /\ query.logical.source.op = "Join"
          /\ query.logical.source.join_type = join_type
          /\ query.logical.source.left = Table("l") /\ query.logical.source.right = Table("r")

\* The conjuncts of the WHERE clause above the join planned, and of its ON.
ConjunctsAbove == IF query.logical.op = "Filter" THEN decompose_predicate(query.logical.predicate) ELSE <<>>

ConjunctsOn ==
    decompose_predicate(IF query.logical.op = "Filter" THEN query.logical.source.on ELSE query.logical.on)

\* The columns of l in the join of l and r.
LeftWidth == fieldnames_for_operator(Table("l"))

AllLeft(p) == \A c \in ColumnDeps(p) : c < LeftWidth

AllRight(p) == \A c \in ColumnDeps(p) : c >= LeftWidth

\* A plan under a filter of the predicates that reached it, if any did.
Handed(predicates, plan) ==
    IF predicates = <<>> THEN plan ELSE Filter(combine_predicates(predicates), plan)

\* The predicates by the offsets of the right input.
Shifted(predicates) == [k \in 1..Len(predicates) |-> move_column_references(predicates[k], 0 - LeftWidth)]

----------------------------------------------------------------------------
(* C24: the predicates of a left outer join *)

\* C24: for a left outer join, of the predicates from above those with only
\* left columns go into the left input and those with a right column end in a
\* filter wrapping the join; of the ON conjuncts those with only right
\* columns, or none, go into the right input and those with a left column
\* stay the ON condition.
C24_LeftOuterJoinPartition ==
    PlannedJoinOf("LeftOuter") =>
        LET left == SelectSeq(ConjunctsAbove, AllLeft)
            right == SelectSeq(ConjunctsAbove, LAMBDA p : ColumnDeps(p) = {})
                         \o SelectSeq(ConjunctsOn, AllRight)
            keep == SelectSeq(ConjunctsOn, LAMBDA p : ~AllRight(p))
            wrap == SelectSeq(ConjunctsAbove, LAMBDA p : ~AllLeft(p))
        IN  query.optimized =
                Handed(wrap, Join("LeftOuter", combine_predicates(keep),
                                   Handed(left, Table("l")), Handed(Shifted(right), Table("r"))))

C24_Witness ==
    /\ PlannedJoinOf("LeftOuter")
    /\ query.logical.op = "Filter"
    /\ query.logical.predicate = WhereClause(7)
    /\ query.logical.source.on = JoinCondition(8)
    /\ query.optimized.op = "Filter"
    /\ query.optimized.predicate = ColumnIsNot(2, 1)
    /\ query.optimized.source.on = Eq(Col(0), Col(2))
    /\ query.optimized.source.left = Filter(ColumnIs(0, 1), Table("l"))
    /\ query.optimized.source.right = Filter(ColumnIsNot(0, 1), Table("r"))

----------------------------------------------------------------------------
(* C25, C29: the hash join built from a join *)

\* The join of the optimized plan of a join statement, and the operator
\* built from it.
OptimizedJoin == IF query.optimized.op = "Filter" THEN query.optimized.source ELSE query.optimized

BuiltJoin == IF query.optimized.op = "Filter" THEN query.operator.source ELSE query.operator

\* An `=` call between two plain column references.
ColumnEquality(p) ==
    /\ p.kind = "CompiledFunctionCall" /\ p.f = "="
    /\ \A k \in 1..2 : p.args[k].kind = "CompiledColumnReference"

\* C25: the HashJoin built from a Join has as key_len the number of ON
\* conjuncts that are `=` calls between two plain column references, as
\* non_equi_condition the conjunction of the other conjuncts and the join's
\* join_type; key_len and the other conjuncts add up to the ON conjuncts.
C25_HashJoinOfJoin ==
    (PlannedJoinOf("Inner") \/ PlannedJoinOf("LeftOuter")) =>
        LET conjuncts == decompose_predicate(OptimizedJoin.on)
            others == SelectSeq(conjuncts, LAMBDA p : ~ColumnEquality(p))
        IN  /\ BuiltJoin.op = "HashJoin"
            /\ BuiltJoin.key_len = Len(SelectSeq(conjuncts, ColumnEquality))
            /\ BuiltJoin.non_equi_condition = combine_predicates(others)
            /\ BuiltJoin.join_type = OptimizedJoin.join_type
            /\ BuiltJoin.key_len + Len(others) = Len(conjuncts)

C25_Witness ==
    /\ PlannedJoinOf("Inner")
    /\ query.logical.op = "Join"
    /\ query.logical.on = JoinCondition(6)
    /\ query.operator.key_len = 1
    /\ query.operator.non_equi_condition = Ne(Col(1), Col(3))
    /\ query.operator.join_type = "Inner"

\* An `=` call between a column of the left and a column of the right input.
CrossEquality(p) ==
    /\ ColumnEquality(p)
    /\ \/ p.args[1].i < LeftWidth /\ p.args[2].i >= LeftWidth
       \/ p.args[2].i < LeftWidth /\ p.args[1].i >= LeftWidth

\* C29: every conjunct counted in the key_len of a HashJoin built after
\* predicate pushdown equates a column of the left with a column of the right
\* input.
C29_KeysEquateLeftWithRight ==
    (PlannedJoinOf("Inner") \/ PlannedJoinOf("LeftOuter")) =>
        BuiltJoin.key_len = Len(SelectSeq(decompose_predicate(OptimizedJoin.on), CrossEquality))

----------------------------------------------------------------------------
(* C26: a Project executor replays its source row by row *)

\* What a Project emits for the k-th row of its source.
Projected(p, k) == [freq |-> p.source[k].freq, row |-> eval_scalar_row(p.expressions, p.source[k].row)]

\* C26: after n calls of next the executor has emitted the projections of the
\* first n source rows, in order and with their frequencies, and no more than
\* the source has; get returns none before the first advance and after the
\* source ran out; column_count is the number of expressions; over Single it
\* emits one row of frequency 1.
C26_ProjectReplaysSource ==
    project.pc = "built" =>
        /\ Len(project.emitted) = (IF project.calls < Len(project.source) THEN project.calls ELSE Len(project.source))
        /\ \A k \in 1..Len(project.emitted) : project.emitted[k] = Projected(project, k)
        /\ (project.got_called /\ (project.calls = 0 \/ project.calls > Len(project.source)))
               => project.got = <<>>
        /\ (project.got_called /\ project.calls \in 1..Len(project.source))
               => project.got = <<Projected(project, project.calls)>>
        /\ project.columns \in {0 - 1, Len(project.expressions)}
        /\ (project.source = SingleSource /\ project.calls >= 1)
               => /\ Len(project.emitted) = 1
                  /\ project.emitted[1].freq = 1

C26_Witness ==
    /\ project.pc = "built"
    /\ Len(project.source) = 2
    /\ project.source[1].freq = 2
    /\ project.source[1].row # project.source[2].row
    /\ project.calls = 4
    /\ Len(project.emitted) = 2
    /\ project.got_called
    /\ project.got = <<>>
    /\ project.columns = 2

====
